---- MODULE Spec2Model ----
(***************************************************************************)
(* Model of download.py: the Android OTA / factory image listing scraper.  *)
(* Strings are sequences of one-character strings so that the regular      *)
(* expressions and the string formatting of the source are computed        *)
(* character by character.                                                  *)
(***************************************************************************)
EXTENDS Integers, Sequences, FiniteSets, TLC

(***************************************************************************)
(* Characters and the Python string primitives the source uses.            *)
(***************************************************************************)
Digit == {"0", "1", "2", "3", "4", "5", "6", "7", "8", "9"}

LowerSeq == <<"a", "b", "c", "d", "e", "f", "g", "h", "i", "j", "k", "l", "m",
              "n", "o", "p", "q", "r", "s", "t", "u", "v", "w", "x", "y", "z">>

UpperSeq == <<"A", "B", "C", "D", "E", "F", "G", "H", "I", "J", "K", "L", "M",
              "N", "O", "P", "Q", "R", "S", "T", "U", "V", "W", "X", "Y", "Z">>

DigitSeq == <<"0", "1", "2", "3", "4", "5", "6", "7", "8", "9">>

Lower == {LowerSeq[i] : i \in 1..26}

Upper == {UpperSeq[i] : i \in 1..26}

Letter == Lower \cup Upper

LowerDigit == Lower \cup Digit

UpperDigit == Upper \cup Digit

\* \w of the re module (ASCII part)
Word == Letter \cup Digit \cup {"_"}

\* [a-fA-F0-9]
Hex == Digit \cup {"a", "b", "c", "d", "e", "f", "A", "B", "C", "D", "E", "F"}

\* [a-f0-9]
LowerHex == Digit \cup {"a", "b", "c", "d", "e", "f"}

\* \s restricted to the blank
Space == {" "}

\* the absent value of an Optional[str] or Optional[Tuple]
None == <<"None">>

\* Python truthiness of an Optional[str]
Truthy(s) == s # None /\ s # <<>>

UpperToLower == [c \in Upper |-> LowerSeq[CHOOSE i \in 1..26 : UpperSeq[i] = c]]

LowerToUpper == [c \in Lower |-> UpperSeq[CHOOSE i \in 1..26 : LowerSeq[i] = c]]

lower(s) == [i \in 1..Len(s) |-> IF s[i] \in Upper THEN UpperToLower[s[i]] ELSE s[i]]

upper(s) == [i \in 1..Len(s) |-> IF s[i] \in Lower THEN LowerToUpper[s[i]] ELSE s[i]]

\* the character at position i, or "" past the end
At(s, i) == IF i \in 1..Len(s) THEN s[i] ELSE ""

\* s[i..j-1]
Sub(s, i, j) == SubSeq(s, i, j - 1)

\* the literal lit occurs in s at position i
LitAt(s, i, lit) == /\ i >= 1
                    /\ i + Len(lit) - 1 <= Len(s)
                    /\ SubSeq(s, i, i + Len(lit) - 1) = lit

startswith(s, p) == LitAt(s, 1, p)

endswith(s, p) == Len(p) <= Len(s) /\ LitAt(s, Len(s) - Len(p) + 1, p)

\* the `in` operator on strings
Contains(s, sub) == \E i \in 1..(Len(s) - Len(sub) + 1) : LitAt(s, i, sub)

\* end (exclusive) of the greedy run of characters of class C that starts at i
RECURSIVE RunEnd(_, _, _)
RunEnd(s, i, C) == IF At(s, i) \in C THEN RunEnd(s, i + 1, C) ELSE i

\* str.split(sep) for a one-character separator
RECURSIVE split(_, _)
split(s, sep) ==
    IF \E i \in 1..Len(s) : s[i] = sep
    THEN LET i == CHOOSE k \in 1..Len(s) :
                      s[k] = sep /\ \A m \in 1..(k - 1) : s[m] # sep
         IN  <<Sub(s, 1, i)>> \o split(SubSeq(s, i + 1, Len(s)), sep)
    ELSE <<s>>

\* sep.join(parts)
RECURSIVE join(_, _)
join(parts, sep) ==
    IF parts = <<>> THEN <<>>
    ELSE IF Len(parts) = 1 THEN parts[1]
    ELSE parts[1] \o sep \o join(Tail(parts), sep)

\* str.strip() for blanks
strip(s) ==
    IF \A i \in 1..Len(s) : s[i] \in Space THEN <<>>
    ELSE LET a == CHOOSE i \in 1..Len(s) :
                      s[i] \notin Space /\ \A m \in 1..(i - 1) : s[m] \in Space
             b == CHOOSE i \in 1..Len(s) :
                      s[i] \notin Space /\ \A m \in (i + 1)..Len(s) : s[m] \in Space
         IN  SubSeq(s, a, b)

\* str.rstrip('/')
RECURSIVE rstrip_slash(_)
rstrip_slash(s) ==
    IF s # <<>> /\ s[Len(s)] = "/" THEN rstrip_slash(SubSeq(s, 1, Len(s) - 1)) ELSE s

isdigit(s) == s # <<>> /\ \A i \in 1..Len(s) : s[i] \in Digit

DigitValue(c) == (CHOOSE i \in 1..10 : DigitSeq[i] = c) - 1

\* int(s) for a string of decimal digits
RECURSIVE int(_)
int(s) == IF s = <<>> THEN 0
          ELSE 10 * int(SubSeq(s, 1, Len(s) - 1)) + DigitValue(s[Len(s)])

\* str(n) for a natural number, as an f-string formats it
RECURSIVE str(_)
str(n) == IF n < 10 THEN <<DigitSeq[n + 1]>>
          ELSE str(n \div 10) \o <<DigitSeq[(n % 10) + 1]>>

\* code point order of the characters that occur in build versions
OrdSeq == <<"-", ".">> \o DigitSeq \o UpperSeq \o <<"_">> \o LowerSeq

ord(c) == CHOOSE i \in 1..Len(OrdSeq) : OrdSeq[i] = c

\* a < b for Python strings
RECURSIVE StrLess(_, _)
StrLess(a, b) ==
    IF b = <<>> THEN FALSE
    ELSE IF a = <<>> THEN TRUE
    ELSE IF a[1] = b[1] THEN StrLess(Tail(a), Tail(b))
    ELSE ord(a[1]) < ord(b[1])

(***************************************************************************)
(* String literals of the source.                                          *)
(***************************************************************************)
OTA_SEP == <<"-", "o", "t", "a", "-">>

FACTORY_SEP == <<"-", "f", "a", "c", "t", "o", "r", "y", "-">>

ZIP_EXT == <<".", "z", "i", "p">>

UNKNOWN == <<"U", "n", "k", "n", "o", "w", "n">>

R_SUFFIX == <<"_", "r">>

(***************************************************************************)
(* The compiled patterns.  Each operator returns the tuple of groups of    *)
(* the match the re module finds (greedy, first in backtracking order) or  *)
(* None.                                                                   *)
(***************************************************************************)

\* ([a-z]+)-ota-([a-z0-9]+)\.([0-9]+)\.([0-9]+)(?:\.([a-z0-9]+))?-   (match)
MODERN_PIXEL_PATTERN(s) ==
    LET a == RunEnd(s, 1, Lower)
        b == RunEnd(s, a + 5, LowerDigit)
        c == RunEnd(s, b + 1, Digit)
        d == RunEnd(s, c + 1, Digit)
        e == RunEnd(s, d + 1, LowerDigit)
        head == <<Sub(s, 1, a), Sub(s, a + 5, b), Sub(s, b + 1, c), Sub(s, c + 1, d)>>
    IN  IF /\ a > 1 /\ LitAt(s, a, OTA_SEP)
           /\ b > a + 5 /\ At(s, b) = "."
           /\ c > b + 1 /\ At(s, c) = "."
           /\ d > c + 1
        THEN IF At(s, d) = "." /\ e > d + 1 /\ At(s, e) = "-"
             THEN head \o <<Sub(s, d + 1, e)>>
             ELSE IF At(s, d) = "-" THEN head \o <<None>> ELSE None
        ELSE None

\* ([a-z]+)-([a-z0-9]+\.\d+\.\d+\.?\d*[a-z0-9]*)-factory-[a-f0-9]+\.zip   (match)
FACTORY_IMAGE_PATTERN(s) ==
    LET a == RunEnd(s, 1, Lower)
        b == RunEnd(s, a + 1, LowerDigit \cup {"."})
        parts == split(Sub(s, a + 1, b), ".")
        h == RunEnd(s, b + 9, LowerHex)
    IN  IF /\ a > 1 /\ At(s, a) = "-"
           /\ Len(parts) \in {3, 4}
           /\ parts[1] # <<>>
           /\ isdigit(parts[2])
           /\ IF Len(parts) = 3
              THEN parts[3] # <<>> /\ parts[3][1] \in Digit
              ELSE isdigit(parts[3])
           /\ LitAt(s, b, FACTORY_SEP)
           /\ h > b + 9
           /\ LitAt(s, h, ZIP_EXT)
        THEN <<Sub(s, 1, a), Sub(s, a + 1, b)>>
        ELSE None

\* re.search(r'([a-z]+)-ota-', filename)
DEVICE_OTA_SEARCH(s) ==
    LET starts == {i \in 1..Len(s) : s[i] \in Lower /\ LitAt(s, RunEnd(s, i, Lower), OTA_SEP)}
    IN  IF starts = {} THEN None
        ELSE LET i == CHOOSE k \in starts : \A m \in starts : k <= m
             IN  <<Sub(s, i, RunEnd(s, i, Lower))>>

\* the end positions the group (?:(?:[A-Za-z]+(?:,\s+)?)*)? can reach from q
VersionWordEnds(s, q) ==
    LET lim == RunEnd(s, q, Letter \cup {",", " "})
    IN  {q} \cup
        {e \in (q + 1)..lim :
            /\ s[q] \in Letter
            /\ \A k \in q..(e - 1) :
                 /\ s[k] = "," => (s[k - 1] \in Letter /\ k + 1 <= e - 1 /\ s[k + 1] = " ")
                 /\ s[k] = " " => s[k - 1] \in {",", " "}}

\* [A-Z0-9]+\.?\d*\.?\d*[A-Z0-9]* matches the whole of span
VersionBuildOK(span) ==
    LET parts == split(span, ".")
    IN  /\ Len(parts) <= 3
        /\ parts[1] # <<>>
        /\ Len(parts) = 3 => \A i \in 1..Len(parts[2]) : parts[2][i] \in Digit

\* (\w+\s\w+)(?:,\s[^)]+)?\)  at t: the group, or None
VersionMonthAt(s, t) ==
    LET w1 == RunEnd(s, t, Word)
        w2 == RunEnd(s, w1 + 1, Word)
    IN  IF /\ w1 > t /\ At(s, w1) = " " /\ w2 > w1 + 1
           /\ \/ At(s, w2) = ")"
              \/ /\ At(s, w2) = "," /\ At(s, w2 + 1) = " "
                 /\ At(s, w2 + 2) \notin {")", ""}
                 /\ \E r \in (w2 + 3)..Len(s) : s[r] = ")"
        THEN Sub(s, t, w2)
        ELSE None

\* (?:,\s(\d{1,2}\s+)?(\w+\s\w+)(?:,\s[^)]+)?)?\)  at f: <<day, month>> or None
VersionTailAt(s, f) ==
    IF At(s, f) = ")" THEN <<None, None>>
    ELSE IF At(s, f) = "," /\ At(s, f + 1) = " "
    THEN LET t == f + 2
             dEnd == RunEnd(s, t, Digit)
             sp == RunEnd(s, dEnd, Space)
             withDay == IF dEnd - t \in {1, 2} /\ sp > dEnd
                        THEN VersionMonthAt(s, sp) ELSE None
             noDay == VersionMonthAt(s, t)
         IN  IF withDay # None THEN <<Sub(s, t, sp), withDay>>
             ELSE IF noDay # None THEN <<None, noDay>>
             ELSE None
    ELSE None

\* VERSION_PATTERN.match(text); groups (version, build, day, month year)
VERSION_PATTERN(s) ==
    LET p == RunEnd(s, 1, Lower \cup {"-", " "})
        a1 == RunEnd(s, p, Digit)
        a2 == RunEnd(s, a1 + 1, Digit)
        a3 == RunEnd(s, a2 + 1, Digit)
        q == a3 + 2
        f(e) == RunEnd(s, e, UpperDigit \cup {"."})
        ends == {e \in VersionWordEnds(s, q) :
                    /\ VersionBuildOK(Sub(s, e, f(e)))
                    /\ VersionTailAt(s, f(e)) # None}
    IN  IF /\ p = 1 \/ (s[1] \in Lower \cup {"-"} /\ s[p - 1] = " ")
           /\ a1 > p /\ At(s, a1) = "."
           /\ a2 > a1 + 1 /\ At(s, a2) = "."
           /\ a3 > a2 + 1 /\ At(s, a3) = " " /\ At(s, a3 + 1) = "("
           /\ ends # {}
        THEN LET e == CHOOSE k \in ends : \A m \in ends : m <= k
                 tail == VersionTailAt(s, f(e))
             IN  <<Sub(s, p, a3), Sub(s, e, f(e)), tail[1], tail[2]>>
        ELSE None

\* end of \d+\.\d+(?:\.\d+)?(?:_r\d+)? at the start of s, or 0
LegacyVersionEnd(s, with_r) ==
    LET a1 == RunEnd(s, 1, Digit)
        a2 == RunEnd(s, a1 + 1, Digit)
        a3 == IF At(s, a2) = "." /\ RunEnd(s, a2 + 1, Digit) > a2 + 1
              THEN RunEnd(s, a2 + 1, Digit) ELSE a2
        a4 == IF with_r /\ LitAt(s, a3, R_SUFFIX) /\ RunEnd(s, a3 + 2, Digit) > a3 + 2
              THEN RunEnd(s, a3 + 2, Digit) ELSE a3
    IN  IF a1 > 1 /\ At(s, a1) = "." /\ a2 > a1 + 1 THEN a4 ELSE 0

\* (\d+\.\d+(?:\.\d+)?(?:_r\d+)?)\s*\(([^)]+)\)\s*\(([A-Z0-9]+)\)   (match)
LEGACY_CARRIER_PATTERN(s) ==
    LET v == LegacyVersionEnd(s, TRUE)
        sp == RunEnd(s, v, Space)
        r == RunEnd(s, sp + 1, {s[i] : i \in 1..Len(s)} \ {")"})
        sp2 == RunEnd(s, r + 1, Space)
        u == RunEnd(s, sp2 + 1, UpperDigit)
    IN  IF /\ v > 0 /\ At(s, sp) = "("
           /\ r > sp + 1 /\ At(s, r) = ")"
           /\ At(s, sp2) = "("
           /\ u > sp2 + 1 /\ At(s, u) = ")"
        THEN <<Sub(s, 1, v), Sub(s, sp + 1, r), Sub(s, sp2 + 1, u)>>
        ELSE None

\* (\d+\.\d+(?:\.\d+)?)\s*\(([A-Z0-9]+)\)   (match)
LEGACY_PATTERN(s) ==
    LET v == LegacyVersionEnd(s, FALSE)
        sp == RunEnd(s, v, Space)
        u == RunEnd(s, sp + 1, UpperDigit)
    IN  IF v > 0 /\ At(s, sp) = "(" /\ u > sp + 1 /\ At(s, u) = ")"
        THEN <<Sub(s, 1, v), Sub(s, sp + 1, u)>>
        ELSE None

\* re.search(r'\.(\d{6})\.', build_version): the six digits, or None
DATE_SEARCH(s) ==
    LET hits == {i \in 1..Len(s) :
                    /\ s[i] = "." /\ At(s, i + 7) = "."
                    /\ \A k \in (i + 1)..(i + 6) : At(s, k) \in Digit}
    IN  IF hits = {} THEN None
        ELSE LET i == CHOOSE k \in hits : \A m \in hits : k <= m
             IN  Sub(s, i + 1, i + 7)

\* the length of a SHA-256 digest in hexadecimal characters
ChecksumLen == 64

\* re.search(r'^[a-fA-F0-9]{64}', checksum)
SHA256_PREFIX(s) ==
    IF Len(s) >= ChecksumLen /\ \A i \in 1..ChecksumLen : s[i] \in Hex
    THEN Sub(s, 1, ChecksumLen + 1)
    ELSE None

(***************************************************************************)
(* More string literals of the source.                                     *)
(***************************************************************************)
V15 == <<"1", "5", ".", "0", ".", "0">>

V14 == <<"1", "4", ".", "0", ".", "0">>

V13 == <<"1", "3", ".", "0", ".", "0">>

OPR == <<"O", "P", "R">>

BP == <<"B", "P">>

AP4 == <<"A", "P", "4">>

AP3 == <<"A", "P", "3">>

AP2 == <<"A", "P", "2">>

BETA == <<"b", "e", "t", "a">>

DOT_B == <<".", "b">>

FACTORY == <<"f", "a", "c", "t", "o", "r", "y">>

PREVIEW == <<"p", "r", "e", "v", "i", "e", "w">>

QPR == <<"q", "p", "r">>

STABLE == <<"s", "t", "a", "b", "l", "e">>

TMOBILE == <<"t", "m", "o", "b", "i", "l", "e">>

VERIZON == <<"v", "e", "r", "i", "z", "o", "n">>

ATT == <<"a", "t", "t">>

SPRINT == <<"s", "p", "r", "i", "n", "t">>

T_MOBILE == <<"t", "-", "m", "o", "b", "i", "l", "e">>

AT_T == <<"a", "t", "&", "t">>

EMEA == <<"e", "m", "e", "a">>

INDIA == <<"i", "n", "d", "i", "a">>

JAPAN == <<"j", "a", "p", "a", "n">>

KOREA == <<"k", "o", "r", "e", "a">>

CHINA == <<"c", "h", "i", "n", "a">>

\* month_names of parse_version_text
month_names == <<
    <<"J", "a", "n">>,
    <<"F", "e", "b">>,
    <<"M", "a", "r">>,
    <<"A", "p", "r">>,
    <<"M", "a", "y">>,
    <<"J", "u", "n">>,
    <<"J", "u", "l">>,
    <<"A", "u", "g">>,
    <<"S", "e", "p">>,
    <<"O", "c", "t">>,
    <<"N", "o", "v">>,
    <<"D", "e", "c">>
    >>

\* carrier_map of _detect_image_type, in its iteration order
carrier_map == <<
    <<<<"t", "m", "o", "b", "i", "l", "e">>,
      <<"T", "-", "M", "o", "b", "i", "l", "e">>>>,
    <<<<"t", "-", "m", "o", "b", "i", "l", "e">>,
      <<"T", "-", "M", "o", "b", "i", "l", "e">>>>,
    <<<<"v", "e", "r", "i", "z", "o", "n">>,
      <<"V", "e", "r", "i", "z", "o", "n">>>>,
    <<<<"a", "t", "t">>,
      <<"A", "T", "&", "T">>>>,
    <<<<"a", "t", "&", "t">>,
      <<"A", "T", "&", "T">>>>,
    <<<<"s", "p", "r", "i", "n", "t">>,
      <<"S", "p", "r", "i", "n", "t">>>>
    >>

\* region_map of _detect_image_type, in its iteration order
region_map == <<
    <<<<"e", "m", "e", "a">>,
      <<"E", "M", "E", "A">>>>,
    <<<<"i", "n", "d", "i", "a">>,
      <<"I", "n", "d", "i", "a">>>>,
    <<<<"j", "a", "p", "a", "n">>,
      <<"J", "a", "p", "a", "n">>>>,
    <<<<"k", "o", "r", "e", "a">>,
      <<"K", "o", "r", "e", "a">>>>,
    <<<<"c", "h", "i", "n", "a">>,
      <<"C", "h", "i", "n", "a">>>>
    >>

(***************************************************************************)
(* parse_version_text and parse_modern_pixel_filename.  A tuple of the     *)
(* source is a sequence: version_parts[k] of the source is parts[k + 1].   *)
(***************************************************************************)

\* release date from the YYMMDD segment of a build version, else "Unknown"
ReleaseDateFromBuild(build_version) ==
    LET date_str == IF Len(build_version) >= 7 THEN DATE_SEARCH(build_version) ELSE None
    IN  IF date_str = None THEN UNKNOWN
        ELSE LET year == int(Sub(date_str, 1, 3))
                 month == int(Sub(date_str, 3, 5))
                 day == int(Sub(date_str, 5, 7))
                 month_name == IF month \in 1..12 THEN month_names[month] ELSE UNKNOWN
             IN  str(day) \o <<" ">> \o month_name \o <<" ", "2", "0">> \o str(year)

\* lines 477-521: the tuple of a VERSION_PATTERN match, from_build being the
\* release date read from the fingerprint
ModernTextParts(groups, from_build) ==
    LET android_version == groups[1]
        build_version == groups[2]
        release_date ==
            IF from_build # UNKNOWN THEN from_build
            ELSE IF Truthy(groups[3])
                 THEN IF Truthy(groups[4])
                      THEN groups[3] \o <<" ">> \o groups[4] ELSE UNKNOWN
                 ELSE IF Truthy(groups[4]) THEN groups[4] ELSE UNKNOWN
    IN  <<android_version, build_version, None, release_date, None>>

\* lines 476-538: the matchers are asked in this order
FirstMatchParts(groups, legacy_carrier_match, legacy_match) ==
    IF groups # None
    THEN ModernTextParts(groups, ReleaseDateFromBuild(groups[2]))
    ELSE IF legacy_carrier_match # None
    THEN <<legacy_carrier_match[1], legacy_carrier_match[3], None, UNKNOWN,
           legacy_carrier_match[2]>>
    ELSE IF legacy_match # None
    THEN <<legacy_match[1], legacy_match[2], None, UNKNOWN, None>>
    ELSE None

parse_version_text(text) ==
    FirstMatchParts(VERSION_PATTERN(text), LEGACY_CARRIER_PATTERN(text),
                    LEGACY_PATTERN(text))

\* a row of the listing: present is FALSE when the link has no enclosing <tr>
NoRow == [present |-> FALSE, table |-> FALSE, h2 |-> None, cells |-> <<>>, link_cell |-> 0]

\* ModernFilenameParts taking the Android version of the row text when the
\* row has one: a variant C24 has to reject
ModernFilenamePartsVersionFromRow(groups, version_parts) ==
    LET build_prefix == upper(groups[2])
        build_major == groups[3]
        build_minor == groups[4]
        build_variant == IF Truthy(groups[5]) THEN groups[5] ELSE None
        android_version ==
            IF version_parts # None THEN version_parts[1]
            ELSE IF startswith(build_prefix, BP) \/ startswith(build_prefix, AP4) THEN V15
            ELSE IF startswith(build_prefix, AP3) THEN V14
            ELSE IF startswith(build_prefix, AP2) THEN V14
            ELSE V13
        build_version ==
            build_prefix \o build_major \o <<".">> \o build_minor
            \o (IF build_variant # None THEN <<".">> \o build_variant ELSE <<>>)
        release_date == IF version_parts # None THEN version_parts[4] ELSE UNKNOWN
    IN  IF groups = None THEN None
        ELSE IF startswith(build_prefix, OPR) THEN None
        ELSE <<android_version, build_version, None, release_date, None>>

\* ModernFilenameParts without the rejection of OPR prefixes: a variant C23 has
\* to reject
ModernFilenamePartsKeepingOpr(groups, version_parts) ==
    LET build_prefix == upper(groups[2])
        build_major == groups[3]
        build_minor == groups[4]
        build_variant == IF Truthy(groups[5]) THEN groups[5] ELSE None
        android_version ==
            IF startswith(build_prefix, BP) \/ startswith(build_prefix, AP4) THEN V15
            ELSE IF startswith(build_prefix, AP3) THEN V14
            ELSE IF startswith(build_prefix, AP2) THEN V14
            ELSE V13
        build_version ==
            build_prefix \o build_major \o <<".">> \o build_minor
            \o (IF build_variant # None THEN <<".">> \o build_variant ELSE <<>>)
        release_date == IF version_parts # None THEN version_parts[4] ELSE UNKNOWN
    IN  IF groups = None THEN None
        ELSE <<android_version, build_version, None, release_date, None>>

\* lines 546-587: the tuple of a MODERN_PIXEL_PATTERN match, version_parts being
\* the tuple parsed from the first cell of the row, or None
ModernFilenameParts(groups, version_parts) ==
    LET build_prefix == upper(groups[2])
        build_major == groups[3]
        build_minor == groups[4]
        build_variant == IF Truthy(groups[5]) THEN groups[5] ELSE None
        android_version ==
            IF startswith(build_prefix, BP) \/ startswith(build_prefix, AP4) THEN V15
            ELSE IF startswith(build_prefix, AP3) THEN V14
            ELSE IF startswith(build_prefix, AP2) THEN V14
            ELSE V13
        build_version ==
            build_prefix \o build_major \o <<".">> \o build_minor
            \o (IF build_variant # None THEN <<".">> \o build_variant ELSE <<>>)
        release_date == IF version_parts # None THEN version_parts[4] ELSE UNKNOWN
    IN  IF groups = None THEN None
        ELSE IF startswith(build_prefix, OPR) THEN None
        ELSE <<android_version, build_version, None, release_date, None>>

parse_modern_pixel_filename(filename, parent_row) ==
    ModernFilenameParts(MODERN_PIXEL_PATTERN(filename),
                        IF parent_row.present /\ parent_row.cells # <<>>
                        THEN parse_version_text(strip(parent_row.cells[1]))
                        ELSE None)

(***************************************************************************)
(* AndroidImageInfo: the constructor with __post_init__.                   *)
(***************************************************************************)

\* the first value of an ordered map whose key occurs in one of the texts
FirstMapped(map, texts) ==
    LET hits == {i \in 1..Len(map) : \E t \in texts : Contains(t, map[i][1])}
    IN  IF hits = {} THEN None
        ELSE map[CHOOSE i \in hits : \A j \in hits : i <= j][2]

\* _extract_security_patch reading the date of fingerprints of three segments
\* or more only: a variant C17 has to reject
ExtractSecurityPatchOfFullBuild(build_version) ==
    LET parts == split(build_version, ".")
    IN  IF Len(parts) >= 3 /\ Len(parts[2]) = 6
        THEN <<"2", "0">> \o Sub(parts[2], 1, 3) \o <<"-">> \o Sub(parts[2], 3, 5)
        ELSE None

_extract_security_patch(build_version) ==
    LET parts == split(build_version, ".")
    IN  IF Len(parts) >= 2 /\ Len(parts[2]) = 6
        THEN <<"2", "0">> \o Sub(parts[2], 1, 3) \o <<"-">> \o Sub(parts[2], 3, 5)
        ELSE None

\* AndroidImageInfo asking for a preview before a beta: a variant C16 has to
\* reject
AndroidImageInfoPreviewFirst(android_version, build_version, sub_version, release_date, additional_info, download_url, checksum) ==
    LET parts == split(download_url, "/")
        filename == parts[Len(parts)]
        filename_lower == lower(filename)
        info_lower == lower(IF additional_info = None THEN <<>> ELSE additional_info)
        is_beta == Contains(filename_lower, BETA) \/ Contains(lower(build_version), DOT_B)
        is_carrier == \E c \in {TMOBILE, VERIZON, ATT, SPRINT, T_MOBILE, AT_T} :
                          Contains(filename_lower, c) \/ Contains(info_lower, c)
        is_region_specific == \E r \in {EMEA, INDIA, JAPAN, KOREA, CHINA} :
                                  Contains(info_lower, r)
    IN  [android_version |-> android_version,
         build_version |-> build_version,
         sub_version |-> sub_version,
         release_date |-> release_date,
         additional_info |-> additional_info,
         download_url |-> download_url,
         filename |-> filename,
         is_beta |-> is_beta,
         is_carrier |-> is_carrier,
         is_factory |-> Contains(filename_lower, FACTORY),
         is_region_specific |-> is_region_specific,
         region |-> FirstMapped(region_map, {info_lower}),
         carrier |-> FirstMapped(carrier_map, {filename_lower, info_lower}),
         build_type |-> IF Contains(filename_lower, PREVIEW) \/ Contains(info_lower, PREVIEW)
                        THEN PREVIEW
                        ELSE IF is_beta THEN BETA
                        ELSE IF Contains(filename_lower, QPR) \/ Contains(info_lower, QPR)
                        THEN QPR
                        ELSE STABLE,
         security_patch_level |-> _extract_security_patch(build_version),
         checksum |-> checksum]

AndroidImageInfo(android_version, build_version, sub_version, release_date, additional_info, download_url, checksum) ==
    LET parts == split(download_url, "/")
        filename == parts[Len(parts)]
        filename_lower == lower(filename)
        info_lower == lower(IF additional_info = None THEN <<>> ELSE additional_info)
        is_beta == Contains(filename_lower, BETA) \/ Contains(lower(build_version), DOT_B)
        is_carrier == \E c \in {TMOBILE, VERIZON, ATT, SPRINT, T_MOBILE, AT_T} :
                          Contains(filename_lower, c) \/ Contains(info_lower, c)
        is_region_specific == \E r \in {EMEA, INDIA, JAPAN, KOREA, CHINA} :
                                  Contains(info_lower, r)
    IN  [android_version |-> android_version,
         build_version |-> build_version,
         sub_version |-> sub_version,
         release_date |-> release_date,
         additional_info |-> additional_info,
         download_url |-> download_url,
         filename |-> filename,
         is_beta |-> is_beta,
         is_carrier |-> is_carrier,
         is_factory |-> Contains(filename_lower, FACTORY),
         is_region_specific |-> is_region_specific,
         region |-> FirstMapped(region_map, {info_lower}),
         carrier |-> FirstMapped(carrier_map, {filename_lower, info_lower}),
         build_type |-> IF is_beta THEN BETA
                        ELSE IF Contains(filename_lower, PREVIEW) \/ Contains(info_lower, PREVIEW)
                        THEN PREVIEW
                        ELSE IF Contains(filename_lower, QPR) \/ Contains(info_lower, QPR)
                        THEN QPR
                        ELSE STABLE,
         security_patch_level |-> _extract_security_patch(build_version),
         checksum |-> checksum]

(***************************************************************************)
(* The ranking key and the descending stable sort.                         *)
(***************************************************************************)
get_version_sort_key(ota_info) ==
    LET android_major == int(split(ota_info.android_version, ".")[1])
        build_parts == split(ota_info.build_version, ".")
        base_build == join(SubSeq(build_parts, 1, IF Len(build_parts) < 3
                                                  THEN Len(build_parts) ELSE 3), <<".">>)
        variant == IF Len(build_parts) > 3 THEN build_parts[4] ELSE <<>>
        variant_priority ==
            IF Len(build_parts) > 3
            THEN IF At(variant, 1) = "a" THEN 1
                 ELSE IF At(variant, 1) = "b" THEN 2
                 ELSE IF At(variant, 1) = "c" THEN 3
                 ELSE IF At(variant, 1) = "d" THEN 4
                 ELSE 0
            ELSE 0
        variant_number ==
            IF Len(build_parts) > 3 /\ Len(variant) > 1 /\ isdigit(Tail(variant))
            THEN int(Tail(variant)) ELSE 0
        build_type_priority ==
            IF ota_info.build_type = STABLE THEN 0
            ELSE IF ota_info.build_type = QPR THEN 1
            ELSE IF ota_info.build_type = PREVIEW THEN 2
            ELSE IF ota_info.build_type = BETA THEN 3
            ELSE 4
        image_type_priority ==
            IF ota_info.is_carrier THEN 1
            ELSE IF ota_info.is_region_specific THEN 2
            ELSE 0
    IN  <<android_major, base_build, build_type_priority, variant_priority,
          variant_number, image_type_priority>>

\* KeyLess holding as soon as one component is smaller: a variant C19 has to
\* reject
KeyLessInSomeComponent(k1, k2) ==
    \E i \in 1..6 : IF i = 2 THEN StrLess(k1[i], k2[i]) ELSE k1[i] < k2[i]

\* k1 < k2 for two sort keys (Python tuple comparison)
KeyLess(k1, k2) ==
    \E i \in 1..6 :
        /\ \A j \in 1..(i - 1) : k1[j] = k2[j]
        /\ IF i = 2 THEN StrLess(k1[i], k2[i]) ELSE k1[i] < k2[i]

\* SortedInsert putting x before the records of its own key, as an ascending
\* sort that is reversed afterwards does: a variant C20 has to reject
SortedInsertBeforeEqual(done, x) ==
    LET k == get_version_sort_key(x)
        pos == Cardinality({i \in 1..Len(done) : KeyLess(k, get_version_sort_key(done[i]))})
    IN  SubSeq(done, 1, pos) \o <<x>> \o SubSeq(done, pos + 1, Len(done))

\* where the stable descending sort puts x into the sorted list done
SortedInsert(done, x) ==
    LET k == get_version_sort_key(x)
        pos == Cardinality({i \in 1..Len(done) : ~KeyLess(get_version_sort_key(done[i]), k)})
    IN  SubSeq(done, 1, pos) \o <<x>> \o SubSeq(done, pos + 1, Len(done))

\* sorted(otas, key=get_version_sort_key, reverse=True)
RECURSIVE SortNewestFirst(_)
SortNewestFirst(otas) ==
    IF otas = <<>> THEN <<>>
    ELSE SortedInsert(SortNewestFirst(SubSeq(otas, 1, Len(otas) - 1)), otas[Len(otas)])

(***************************************************************************)
(* parse_page.  A listing is the sequence of the <a> elements of the page  *)
(* in document order, each with its enclosing row: the texts of the row's  *)
(* cells, the cell that holds the link, whether the row is inside a table  *)
(* and the id of the <h2> before that table.                               *)
(***************************************************************************)

\* the checksum column of a row for the checksum map: <<link cell, checksum cell>>
ChecksumColumns(row, is_factory) ==
    IF is_factory /\ Len(row.cells) = 4 THEN <<3, 4>> ELSE <<2, 3>>

\* checksum_map of parse_page after the rows of html[1..n]
RECURSIVE checksum_map(_, _, _)
checksum_map(html, n, is_factory) ==
    IF n = 0 THEN <<>>
    ELSE LET before == checksum_map(html, n - 1, is_factory)
             link == html[n]
             row == link.row
             cols == ChecksumColumns(row, is_factory)
             checksum == strip(row.cells[cols[2]])
             normalized_url == lower(rstrip_slash(link.href))
             sha256_match == IF checksum # <<>> THEN SHA256_PREFIX(checksum) ELSE None
         IN  IF /\ row.present /\ Len(row.cells) >= 3
                /\ row.link_cell = cols[1] /\ link.href # <<>>
                /\ sha256_match # None
             THEN Append(SelectSeq(before, LAMBDA e : e[1] # normalized_url),
                         <<normalized_url, sha256_match>>)
             ELSE before

\* checksum_map.get(normalized_url)
MapGet(map, key) ==
    IF \E i \in 1..Len(map) : map[i][1] = key
    THEN map[CHOOSE i \in 1..Len(map) : map[i][1] = key][2]
    ELSE None

\* the last segment of a download URL
Basename(download_url) ==
    LET url_parts == split(download_url, "/") IN url_parts[Len(url_parts)]

\* outcomes of the body of the loop over the links
Skipped == [kind |-> "continue"]

Raised == [kind |-> "raise"]

Added(device_codename, ota_info) ==
    [kind |-> "append", device |-> device_codename, info |-> ota_info]

\* the factory branch of the loop body (lines 810-846), version_parts being
\* the tuple parsed from the first cell of the row, or None
FactoryRecordOf(factory_match, version_parts, download_url, checksum) ==
    LET build_version == factory_match[2]
        android_version ==
            IF version_parts # None THEN version_parts[1]
            ELSE IF startswith(build_version, AP4) THEN V15
            ELSE IF startswith(build_version, AP3) THEN V15
            ELSE IF startswith(build_version, AP2) THEN V14
            ELSE V14
        release_date == IF version_parts # None THEN version_parts[4] ELSE UNKNOWN
        additional_info == IF version_parts # None THEN version_parts[5] ELSE None
    IN  AndroidImageInfo(android_version, build_version, None, release_date,
                         additional_info, download_url, checksum)

\* the factory branch from its start: the version text of the row is parsed
\* first (lines 796-846)
FactoryRecord(factory_match, parent_row, download_url, checksum) ==
    LET version_text == IF parent_row.present /\ Len(parent_row.cells) >= 1
                        THEN strip(parent_row.cells[1]) ELSE None
    IN  FactoryRecordOf(factory_match,
                        IF Truthy(version_text) THEN parse_version_text(version_text)
                        ELSE None,
                        download_url, checksum)

\* AndroidImageInfo(android_version=version_parts[0], ..., checksum=checksum)
InfoFromParts(version_parts, download_url, checksum) ==
    AndroidImageInfo(version_parts[1], version_parts[2], version_parts[3],
                     version_parts[4], version_parts[5], download_url, checksum)

\* the legacy branch of the loop body (lines 899-925), version_parts being the
\* tuple parsed from the version cell of the row
LegacyRecordOf(device_codename, version_parts, download_url, checksum) ==
    IF version_parts = None THEN Skipped
    ELSE Added(device_codename, InfoFromParts(version_parts, download_url, checksum))

\* the legacy branch from its start: the row is looked at before its version
\* cell is parsed (lines 848-925)
LegacyRecord(device_codename, parent_row, download_url, checksum, is_factory) ==
    LET cells == parent_row.cells
        version_cell == IF is_factory /\ Len(cells) = 4 THEN cells[2] ELSE cells[1]
    IN  IF ~parent_row.present THEN Skipped
        ELSE IF Len(cells) < 3 THEN Skipped
        ELSE LegacyRecordOf(device_codename, parse_version_text(strip(version_cell)),
                            download_url, checksum)

\* device_codename of the loop body (lines 737-764)
LinkDevice(parent_row, is_factory, version_parts, factory_match, device_match) ==
    IF parent_row.table /\ Truthy(parent_row.h2) THEN parent_row.h2
    ELSE IF version_parts # None THEN version_parts[1]
    ELSE IF is_factory
         THEN IF factory_match # None THEN factory_match[1] ELSE None
         ELSE IF device_match # None THEN device_match[1] ELSE None

\* the loop body once the device is determined (lines 766-925)
LinkRecord(link, is_factory, checksum, version_parts, factory_match, device_codename) ==
    IF ~link.row.present THEN Raised
    ELSE IF ~Truthy(device_codename) THEN Skipped
    ELSE IF version_parts # None
    THEN Added(device_codename, InfoFromParts(version_parts, link.href, checksum))
    ELSE IF is_factory /\ factory_match # None
    THEN Added(device_codename,
               FactoryRecord(factory_match, link.row, link.href, checksum))
    ELSE LegacyRecord(device_codename, link.row, link.href, checksum, is_factory)

\* the loop body once the file name is matched (lines 737-925)
ProcessParsed(link, is_factory, checksum, version_parts, factory_match, device_match) ==
    LinkRecord(link, is_factory, checksum, version_parts, factory_match,
               LinkDevice(link.row, is_factory, version_parts, factory_match,
                          device_match))

\* the body of the loop over all_links for one link (lines 728-925);
\* checksum is checksum_map.get(normalized_url)
ProcessLink(link, is_factory, checksum) ==
    ProcessParsed(link, is_factory, checksum,
                  parse_modern_pixel_filename(Basename(link.href), link.row),
                  FACTORY_IMAGE_PATTERN(Basename(link.href)),
                  DEVICE_OTA_SEARCH(Basename(link.href)))

\* the absent value of an Optional[AndroidImageInfo]
NoneInfo == [none |-> TRUE]

\* the value fetch_page returns when every request failed
NoHtml == <<[none |-> TRUE]>>

\* `not html`
HtmlMissing(html) == html = NoHtml

\* an empty dict
EmptyDict == [d \in {} |-> <<>>]

\* the outcome of a call: an exception left it, or it returned value
Raise == [raised |-> TRUE, value |-> NoneInfo]

RaisePage == [raised |-> TRUE, value |-> EmptyDict]

Return(v) == [raised |-> FALSE, value |-> v]

\* the records appended for device, in the order of the links
RECURSIVE AppendedFor(_, _)
AppendedFor(outcomes, device) ==
    IF outcomes = <<>> THEN <<>>
    ELSE LET last == outcomes[Len(outcomes)]
             front == AppendedFor(SubSeq(outcomes, 1, Len(outcomes) - 1), device)
         IN  IF last.kind = "append" /\ last.device = device
             THEN Append(front, last.info) ELSE front

\* the outcome of the loop body for each link ending in .zip (lines 724-925)
LinkOutcomes(html, is_factory) ==
    LET cmap == checksum_map(html, Len(html), is_factory)
        all_links == SelectSeq(html, LAMBDA l : endswith(l.href, ZIP_EXT))
    IN  [i \in 1..Len(all_links) |->
            ProcessLink(all_links[i], is_factory,
                        MapGet(cmap, lower(rstrip_slash(all_links[i].href))))]

\* Collected leaving each list in the order of the links: a variant C21 has to
\* reject
CollectedInPageOrder(outcomes) ==
    LET devices == {outcomes[i].device :
                       i \in {j \in 1..Len(outcomes) : outcomes[j].kind = "append"}}
    IN  IF \E i \in 1..Len(outcomes) : outcomes[i].kind = "raise" THEN RaisePage
        ELSE Return([d \in devices |-> AppendedFor(outcomes, d)])

\* the dict built from the outcomes, each list sorted (lines 927-933), unless
\* the loop was left by an exception
Collected(outcomes) ==
    LET devices == {outcomes[i].device :
                       i \in {j \in 1..Len(outcomes) : outcomes[j].kind = "append"}}
    IN  IF \E i \in 1..Len(outcomes) : outcomes[i].kind = "raise" THEN RaisePage
        ELSE Return([d \in devices |-> SortNewestFirst(AppendedFor(outcomes, d))])

parse_page(html, is_factory) ==
    IF HtmlMissing(html) THEN Return(EmptyDict)
    ELSE Collected(LinkOutcomes(html, is_factory))

(***************************************************************************)
(* get_latest_ota.                                                         *)
(***************************************************************************)

\* the checksum get_latest_ota reads from the row itself (lines 1175-1184)
RowChecksum(parent_row) ==
    IF parent_row.present /\ Len(parent_row.cells) >= 3
    THEN SHA256_PREFIX(strip(parent_row.cells[3]))
    ELSE None

\* lines 1198-1233: version_parts is what parse_version_text returned
FallbackLegacy(version_parts, download_url, checksum) ==
    IF version_parts = None THEN NoneInfo
    ELSE InfoFromParts(version_parts, download_url, checksum)

\* lines 1173-1233: version_parts is what parse_modern_pixel_filename returned
FallbackParsed(link, version_parts, checksum) ==
    IF version_parts # None THEN InfoFromParts(version_parts, link.href, checksum)
    ELSE IF ~link.row.present THEN NoneInfo
    ELSE IF link.row.cells = <<>> THEN NoneInfo
    ELSE FallbackLegacy(parse_version_text(strip(link.row.cells[1])), link.href,
                        checksum)

\* the body of the loop over the links that name the device (lines 1165-1233):
\* the record appended to matching_otas, or NoneInfo
FallbackRecord(link) ==
    FallbackParsed(link, parse_modern_pixel_filename(Basename(link.href), link.row),
                   RowChecksum(link.row))

\* matching_otas when the device is no key of the snapshot (lines 1157-1233)
FallbackMatches(html, device_codename) ==
    LET link_pattern == device_codename \o OTA_SEP
        links == SelectSeq(html, LAMBDA l : /\ l.href # <<>>
                                            /\ Contains(lower(l.href), link_pattern)
                                            /\ endswith(l.href, ZIP_EXT))
        records == [i \in 1..Len(links) |-> FallbackRecord(links[i])]
    IN  SelectSeq(records, LAMBDA r : r # NoneInfo)

\* FilterOtas with the beta filter left out: a variant C8 has to reject
FilterOtasKeepingBeta(matching_otas, o) ==
    LET by_build == IF Truthy(o.specific_build)
                    THEN SelectSeq(matching_otas,
                                   LAMBDA ota : ota.build_version = o.specific_build)
                    ELSE matching_otas
        no_carrier == IF ~o.include_carrier
                      THEN SelectSeq(by_build, LAMBDA ota : ~ota.is_carrier) ELSE by_build
        no_region == IF ~o.include_region_specific
                     THEN SelectSeq(no_carrier, LAMBDA ota : ~ota.is_region_specific)
                     ELSE no_carrier
        by_carrier == IF Truthy(o.carrier)
                      THEN SelectSeq(no_region, LAMBDA ota : ota.carrier = o.carrier)
                      ELSE no_region
        by_region == IF Truthy(o.region)
                     THEN SelectSeq(by_carrier, LAMBDA ota : ota.region = o.region)
                     ELSE by_carrier
    IN  by_region

\* FilterOtas keeping every record when none has the requested fingerprint:
\* a variant C10 has to reject
FilterOtasBuildFallback(matching_otas, o) ==
    LET with_build == SelectSeq(matching_otas,
                                LAMBDA ota : ota.build_version = o.specific_build)
        by_build == IF Truthy(o.specific_build) /\ with_build # <<>>
                    THEN with_build ELSE matching_otas
        no_beta == IF ~o.include_beta
                   THEN SelectSeq(by_build, LAMBDA ota : ~ota.is_beta) ELSE by_build
        no_carrier == IF ~o.include_carrier
                      THEN SelectSeq(no_beta, LAMBDA ota : ~ota.is_carrier) ELSE no_beta
        no_region == IF ~o.include_region_specific
                     THEN SelectSeq(no_carrier, LAMBDA ota : ~ota.is_region_specific)
                     ELSE no_carrier
        by_carrier == IF Truthy(o.carrier)
                      THEN SelectSeq(no_region, LAMBDA ota : ota.carrier = o.carrier)
                      ELSE no_region
        by_region == IF Truthy(o.region)
                     THEN SelectSeq(by_carrier, LAMBDA ota : ota.region = o.region)
                     ELSE by_carrier
    IN  by_region

\* FilterOtas with the carrier exclusion left out: a variant C30 has to reject
FilterOtasKeepingCarrier(matching_otas, o) ==
    LET by_build == IF Truthy(o.specific_build)
                    THEN SelectSeq(matching_otas,
                                   LAMBDA ota : ota.build_version = o.specific_build)
                    ELSE matching_otas
        no_beta == IF ~o.include_beta
                   THEN SelectSeq(by_build, LAMBDA ota : ~ota.is_beta) ELSE by_build
        no_carrier == no_beta
        no_region == IF ~o.include_region_specific
                     THEN SelectSeq(no_carrier, LAMBDA ota : ~ota.is_region_specific)
                     ELSE no_carrier
        by_carrier == IF Truthy(o.carrier)
                      THEN SelectSeq(no_region, LAMBDA ota : ota.carrier = o.carrier)
                      ELSE no_region
        by_region == IF Truthy(o.region)
                     THEN SelectSeq(by_carrier, LAMBDA ota : ota.region = o.region)
                     ELSE by_carrier
    IN  by_region

\* the filters of lines 1241-1275 applied in their order
FilterOtas(matching_otas, o) ==
    LET by_build == IF Truthy(o.specific_build)
                    THEN SelectSeq(matching_otas,
                                   LAMBDA ota : ota.build_version = o.specific_build)
                    ELSE matching_otas
        no_beta == IF ~o.include_beta
                   THEN SelectSeq(by_build, LAMBDA ota : ~ota.is_beta) ELSE by_build
        no_carrier == IF ~o.include_carrier
                      THEN SelectSeq(no_beta, LAMBDA ota : ~ota.is_carrier) ELSE no_beta
        no_region == IF ~o.include_region_specific
                     THEN SelectSeq(no_carrier, LAMBDA ota : ~ota.is_region_specific)
                     ELSE no_carrier
        by_carrier == IF Truthy(o.carrier)
                      THEN SelectSeq(no_region, LAMBDA ota : ota.carrier = o.carrier)
                      ELSE no_region
        by_region == IF Truthy(o.region)
                     THEN SelectSeq(by_carrier, LAMBDA ota : ota.region = o.region)
                     ELSE by_carrier
    IN  by_region

\* matching_otas of get_latest_ota (lines 1152-1233)
MatchingOtas(html, data, device_codename) ==
    IF device_codename \in DOMAIN data /\ data[device_codename] # <<>>
    THEN data[device_codename]
    ELSE FallbackMatches(html, device_codename)

(***************************************************************************)
(* The listings the model draws its pages from.                            *)
(***************************************************************************)
HREF_HUSKY_BP1A == <<"/", "o", "t", "a", "/", "h", "u", "s", "k", "y", "-",
                     "o", "t", "a", "-", "b", "p", "1", "a", ".", "2", "5",
                     "0", "3", "0", "5", ".", "0", "1", "9", "-", "b", "4",
                     "9", "7", "7", "f", "3", "7", ".", "z", "i", "p">>

HREF_HUSKY_AP4A_B1 == <<"/", "o", "t", "a", "/", "h", "u", "s", "k", "y",
                        "-", "o", "t", "a", "-", "a", "p", "4", "a", ".",
                        "2", "5", "0", "2", "0", "5", ".", "0", "0", "2",
                        ".", "b", "1", "-", "0", "a", "1", "b", "2", "c",
                        "3", "d", ".", "z", "i", "p">>

HREF_HUSKY_FULL == <<"/", "o", "t", "a", "/", "h", "u", "s", "k", "y", "-",
                     "o", "t", "a", "-", "a", "p", "4", "a", "-", "1", "f",
                     "2", "e", ".", "z", "i", "p">>

HREF_HUSKY_BETA == <<"/", "o", "t", "a", "/", "h", "u", "s", "k", "y", "_",
                     "b", "e", "t", "a", "-", "o", "t", "a", "-", "a", "p",
                     "4", "a", "-", "3", "c", "4", "d", ".", "z", "i", "p">>

HREF_HUSKY_VERIZON == <<"/", "o", "t", "a", "/", "h", "u", "s", "k", "y",
                        "-", "o", "t", "a", "-", "v", "e", "r", "i", "z",
                        "o", "n", "-", "5", "a", "6", "b", ".", "z", "i",
                        "p">>

HREF_HUSKY_KVT == <<"/", "o", "t", "a", "/", "h", "u", "s", "k", "y", "-",
                    "o", "t", "a", "-", "k", "v", "t", "4", "9", "l", "-",
                    "7", "c", "8", "d", ".", "z", "i", "p">>

HREF_BULLHEAD == <<"/", "o", "t", "a", "/", "b", "u", "l", "l", "h", "e",
                   "a", "d", "-", "o", "t", "a", "-", "n", "m", "f", "2",
                   "6", "o", "-", "2", "7", "b", "4", "0", "7", "5", "c",
                   ".", "z", "i", "p">>

HREF_FUGU_OPR == <<"/", "o", "t", "a", "/", "f", "u", "g", "u", "-", "o",
                   "t", "a", "-", "o", "p", "r", "2", ".", "1", "7", "0",
                   "6", "2", "3", ".", "0", "2", "7", "-", "7", "6", "a",
                   "b", "6", "d", "6", "a", ".", "z", "i", "p">>

HREF_NO_DEVICE == <<"/", "o", "t", "a", "/", "i", "m", "a", "g", "e", ".",
                    "z", "i", "p">>

HREF_FACTORY == <<"/", "i", "m", "g", "/", "h", "u", "s", "k", "y", "-", "a",
                  "p", "4", "a", ".", "2", "5", "0", "2", "0", "5", ".", "0",
                  "0", "2", "-", "f", "a", "c", "t", "o", "r", "y", "-", "1",
                  "a", "2", "b", "3", "c", "4", "d", ".", "z", "i", "p">>

HREF_FACTORY_B1 == <<"/", "i", "m", "g", "/", "h", "u", "s", "k", "y", "-",
                     "a", "p", "4", "a", ".", "2", "5", "0", "2", "0", "5",
                     ".", "0", "0", "2", ".", "b", "1", "-", "f", "a", "c",
                     "t", "o", "r", "y", "-", "5", "e", "6", "f", "7", "a",
                     "8", "b", ".", "z", "i", "p">>

TEXT_BP1A == <<"1", "5", ".", "0", ".", "0", " ", "(", "B", "P", "1", "A",
               ".", "2", "5", "0", "3", "0", "5", ".", "0", "1", "9", ",",
               " ", "M", "a", "r", " ", "2", "0", "2", "5", ")">>

TEXT_AP4A == <<"1", "5", ".", "0", ".", "0", " ", "(", "A", "P", "4", "A",
               ".", "2", "5", "0", "2", "0", "5", ".", "0", "0", "2", ")">>

TEXT_AP4A_B1 == <<"1", "5", ".", "0", ".", "0", " ", "(", "A", "P", "4", "A",
                  ".", "2", "5", "0", "2", "0", "5", ".", "0", "0", "2", ".",
                  "B", "1", ",", " ", "F", "e", "b", " ", "2", "0", "2", "5",
                  ")">>

TEXT_NMF26O == <<"7", ".", "1", ".", "1", " ", "(", "N", "M", "F", "2", "6",
                 "O", ",", " ", "D", "e", "c", " ", "2", "0", "1", "6", ")">>

TEXT_VERIZON == <<"4", ".", "4", ".", "2", "_", "r", "2", " ", "(", "V", "e",
                  "r", "i", "z", "o", "n", ")", " ", "(", "K", "V", "T", "4",
                  "9", "L", ")">>

TEXT_INDIA == <<"5", ".", "0", " ", "(", "I", "n", "d", "i", "a", ")", " ",
                "(", "L", "R", "X", "2", "1", ")">>

TEXT_VZW == <<"4", ".", "4", ".", "2", " ", "(", "V", "Z", "W", ")", " ",
              "(", "K", "V", "T", "4", "9", "L", ")">>

TEXT_OREO == <<"o", "r", "e", "o", "-", "r", "6", " ", "(", "O", "P", "R",
               "6", ".", "1", "7", "0", "6", "2", "3", ".", "0", "2", "3",
               ",", " ", "N", "o", "v", " ", "2", "0", "1", "7", ")">>

TEXT_OPR2 == <<"8", ".", "0", ".", "0", " ", "(", "O", "P", "R", "2", ".",
               "1", "7", "0", "6", "2", "3", ".", "0", "2", "7", ",", " ",
               "N", "o", "v", " ", "2", "0", "1", "7", ")">>

TEXT_LINK == <<"L", "i", "n", "k">>

TEXT_FLASH == <<"F", "l", "a", "s", "h">>

SHA_A == <<"3", "f", "5", "a", "9", "c", "1", "e", "7", "b", "2", "d", "4",
           "f", "6", "a", "8", "c", "0", "e", "1", "b", "3", "d", "5", "f",
           "7", "a", "9", "c", "2", "e", "4", "b", "6", "d", "8", "f", "0",
           "a", "1", "c", "3", "e", "5", "b", "7", "d", "9", "f", "2", "a",
           "4", "c", "6", "e", "8", "b", "0", "d", "1", "f", "3", "a">>

SHA_B_ZIP == <<"A", "0", "B", "1", "C", "2", "D", "3", "E", "4", "F", "5",
               "a", "6", "b", "7", "c", "8", "d", "9", "e", "0", "f", "1",
               "a", "2", "b", "3", "c", "4", "d", "5", "e", "6", "f", "7",
               "a", "8", "b", "9", "c", "0", "d", "1", "e", "2", "f", "3",
               "a", "4", "b", "5", "c", "6", "d", "7", "e", "8", "f", "9",
               "a", "0", "b", "1", ".", "z", "i", "p">>

SHA_SHORT == <<"3", "f", "5", "a", "9", "c", "1", "e">>

HUSKY == <<"h", "u", "s", "k", "y">>

BULLHEAD == <<"b", "u", "l", "l", "h", "e", "a", "d">>

FUGU == <<"f", "u", "g", "u">>

Row(table, h2, cells, link_cell) ==
    [present |-> TRUE, table |-> table, h2 |-> h2, cells |-> cells, link_cell |-> link_cell]

Link(href, row) == [href |-> href, row |-> row]

\* a modern OTA row under the heading of its device
LINK_MODERN == Link(HREF_HUSKY_BP1A, Row(TRUE, HUSKY, <<TEXT_BP1A, TEXT_LINK, SHA_A>>, 2))

\* a modern OTA row of a beta variant in a table that no heading precedes
LINK_MODERN_B1 ==
    Link(HREF_HUSKY_AP4A_B1, Row(TRUE, None, <<TEXT_AP4A_B1, TEXT_LINK, SHA_B_ZIP>>, 2))

\* a download link outside every table row
LINK_ORPHAN == Link(HREF_HUSKY_BP1A, NoRow)

\* two builds of one base version told apart by the file name only
LINK_FULL == Link(HREF_HUSKY_FULL, Row(TRUE, HUSKY, <<TEXT_AP4A, TEXT_LINK, SHA_A>>, 2))

LINK_BETA == Link(HREF_HUSKY_BETA, Row(TRUE, HUSKY, <<TEXT_AP4A, TEXT_LINK, SHA_SHORT>>, 2))

\* carrier and region builds
LINK_CARRIER ==
    Link(HREF_HUSKY_KVT, Row(TRUE, HUSKY, <<TEXT_VERIZON, TEXT_LINK, SHA_A>>, 2))

LINK_CARRIER_FILE ==
    Link(HREF_HUSKY_VERIZON, Row(TRUE, HUSKY, <<TEXT_AP4A, TEXT_LINK, SHA_A>>, 2))

LINK_REGION == Link(HREF_HUSKY_KVT, Row(TRUE, HUSKY, <<TEXT_INDIA, TEXT_LINK, SHA_A>>, 2))

\* legacy rows: the device is named by the file only
LINK_LEGACY == Link(HREF_BULLHEAD, Row(FALSE, None, <<TEXT_NMF26O, TEXT_LINK, SHA_B_ZIP>>, 2))

LINK_VZW == Link(HREF_BULLHEAD, Row(TRUE, <<>>, <<TEXT_VZW, TEXT_LINK, SHA_A>>, 2))

\* the file of LINK_FULL listed once more, its checksum cell cut short
LINK_FULL_TRUNCATED ==
    Link(HREF_HUSKY_FULL, Row(TRUE, HUSKY, <<TEXT_AP4A, TEXT_LINK, SHA_SHORT>>, 2))

\* rows that yield no record
LINK_UNPARSABLE ==
    Link(HREF_BULLHEAD, Row(TRUE, BULLHEAD, <<TEXT_OREO, TEXT_LINK, SHA_A>>, 2))

LINK_TWO_CELLS == Link(HREF_BULLHEAD, Row(TRUE, BULLHEAD, <<TEXT_NMF26O, TEXT_LINK>>, 2))

LINK_NO_DEVICE == Link(HREF_NO_DEVICE, Row(TRUE, None, <<TEXT_NMF26O, TEXT_LINK, SHA_A>>, 2))

\* a modern file name with a legacy OPR prefix
LINK_OPR == Link(HREF_FUGU_OPR, Row(TRUE, FUGU, <<TEXT_OPR2, TEXT_LINK, SHA_A>>, 2))

\* rows of the factory image listing, with four and with three cells
LINK_FACTORY ==
    Link(HREF_FACTORY, Row(TRUE, HUSKY, <<TEXT_AP4A, TEXT_FLASH, TEXT_LINK, SHA_A>>, 3))

LINK_FACTORY_B1 ==
    Link(HREF_FACTORY_B1, Row(TRUE, HUSKY, <<TEXT_AP4A, TEXT_LINK, SHA_B_ZIP>>, 2))

ParseLinks ==
    {LINK_MODERN, LINK_MODERN_B1, LINK_ORPHAN, LINK_FULL, LINK_BETA, LINK_CARRIER,
     LINK_CARRIER_FILE, LINK_REGION, LINK_LEGACY, LINK_VZW, LINK_UNPARSABLE,
     LINK_TWO_CELLS, LINK_NO_DEVICE, LINK_OPR, LINK_FACTORY, LINK_FACTORY_B1}

\* the links of the factory image page
FactoryLinks == {LINK_FACTORY, LINK_FACTORY_B1, LINK_MODERN, LINK_LEGACY, LINK_ORPHAN}

SelectLinks ==
    {LINK_MODERN, LINK_MODERN_B1, LINK_ORPHAN, LINK_FULL, LINK_BETA, LINK_CARRIER,
     LINK_REGION, LINK_LEGACY}

HREF_FUGU_OPR6 == <<"/", "o", "t", "a", "/", "f", "u", "g", "u", "-", "o",
                    "t", "a", "-", "o", "p", "r", "6", ".", "1", "7", "0",
                    "6", "2", "3", ".", "0", "2", "3", "-", "5", "f", "2",
                    "d", "8", "e", "1", "c", ".", "z", "i", "p">>

HREF_FUGU_OPR4 == <<"/", "o", "t", "a", "/", "f", "u", "g", "u", "-", "o",
                    "t", "a", "-", "o", "p", "r", "4", ".", "1", "7", "0",
                    "6", "2", "3", ".", "0", "2", "0", "-", "0", "a", "9",
                    "b", "8", "c", "7", "d", ".", "z", "i", "p">>

HREF_FUGU_OPR1 == <<"/", "o", "t", "a", "/", "f", "u", "g", "u", "-", "o",
                    "t", "a", "-", "o", "p", "r", "1", ".", "1", "7", "0",
                    "6", "2", "3", ".", "0", "3", "2", "-", "1", "c", "2",
                    "d", "3", "e", "4", "f", ".", "z", "i", "p">>

\* modern file names with an OPR prefix: in a row whose text cannot be parsed,
\* in a row without text, and in a table that no heading precedes
LINK_OPR_UNPARSABLE ==
    Link(HREF_FUGU_OPR6, Row(TRUE, FUGU, <<TEXT_OREO, TEXT_LINK, SHA_A>>, 2))

LINK_OPR_NO_TEXT == Link(HREF_FUGU_OPR4, Row(TRUE, FUGU, <<<<>>, TEXT_LINK, SHA_A>>, 2))

LINK_OPR_NO_HEADING ==
    Link(HREF_FUGU_OPR1, Row(TRUE, None, <<TEXT_NMF26O, TEXT_LINK, SHA_A>>, 2))

\* the links of the listings of Nexus-era builds
LegacyPrefixLinks ==
    {LINK_OPR, LINK_OPR_UNPARSABLE, LINK_OPR_NO_TEXT, LINK_OPR_NO_HEADING, LINK_MODERN,
     LINK_LEGACY, LINK_TWO_CELLS}

\* the links of the listings whose checksums are looked at
ChecksumLinks ==
    {LINK_FULL, LINK_FULL_TRUNCATED, LINK_BETA, LINK_MODERN_B1, LINK_LEGACY,
     LINK_FACTORY, LINK_TWO_CELLS}

\* the largest number of links of a listing
MaxLinks == 2

\* the listings of at most MaxLinks links over a set of links, and the failed fetch
Listings(links) == UNION {[1..n -> links] : n \in 0..MaxLinks} \cup {NoHtml}

Devices == {HUSKY, BULLHEAD}

Options ==
    [include_beta : BOOLEAN, prefer_stable : BOOLEAN, include_carrier : BOOLEAN,
     include_region_specific : BOOLEAN,
     carrier : {None, <<"V", "e", "r", "i", "z", "o", "n">>},
     region : {None, <<"I", "n", "d", "i", "a">>},
     specific_build : {None, <<"4", "A", ".", "2", "5", "0", "2", "0", "5", ".", "0", "0", "2">>}]

(***************************************************************************)
(* The file names and version texts the parsers are applied to.            *)
(***************************************************************************)
Codenames == {HUSKY, BULLHEAD, FUGU}

BuildPrefixes ==
    {<<"b", "p", "1", "a">>, <<"a", "p", "4", "a">>, <<"a", "p", "3", "a">>,
     <<"a", "p", "2", "a">>, <<"t", "q", "3", "a">>, <<"o", "p", "r", "2">>}

BuildMajors == {<<"2", "5", "0", "3", "0", "5">>, <<"2", "5", "0", "2", "0", "5">>}

BuildMinors == {<<"0", "1", "9">>, <<"0", "0", "2">>}

BuildVariants == {<<>>, <<".", "b", "1">>, <<".", "a", "2">>}

HASH_ZIP == <<"-", "b", "4", "9", "7", "7", "f", "3", "7", ".", "z", "i", "p">>

ModernFilenames ==
    {c \o OTA_SEP \o p \o <<".">> \o ma \o <<".">> \o mi \o v \o HASH_ZIP :
        c \in Codenames, p \in BuildPrefixes, ma \in BuildMajors, mi \in BuildMinors,
        v \in BuildVariants}

Filenames ==
    ModernFilenames \cup {Basename(l.href) : l \in ParseLinks}

ParentRows == {NoRow, LINK_MODERN.row, LINK_UNPARSABLE.row}

VersionNumbers == {<<"7", ".", "1", ".", "1">>, <<"1", "5", ".", "0", ".", "0">>}

BuildNames ==
    {<<"N", "M", "F", "2", "6", "O">>, <<"K", "V", "T", "4", "9", "L">>,
     <<"A", "P", "4", "A", ".", "2", "5", "0", "2", "0", "5", ".", "0", "0", "2">>,
     <<"A", "P", "4", "A", ".", "2", "5", "0", "2", "0", "5", ".", "0", "0", "2", ".", "B", "1">>}

DateSuffixes == {<<>>, <<",", " ", "D", "e", "c", " ", "2", "0", "1", "6">>, <<",", " ", "0", "5", " ", "D", "e", "c", " ", "2", "0", "1", "6">>}

Texts ==
    {v \o <<" ", "(">> \o b \o d \o <<")">> :
        v \in VersionNumbers, b \in BuildNames, d \in DateSuffixes}
    \cup {l.row.cells[1] : l \in ParseLinks \ {LINK_ORPHAN}}

\* lines 1149-1233 of get_latest_ota: matching_otas, parsed being the outcome
\* of parse_page
Matched(html, parsed, device_codename) ==
    IF parsed.raised THEN [raised |-> TRUE, fetched |-> TRUE, otas |-> <<>>]
    ELSE [raised |-> FALSE, fetched |-> TRUE,
          otas |-> MatchingOtas(html, parsed.value, device_codename)]

\* lines 1143-1233 of get_latest_ota: the fetch, the parse and matching_otas
FindMatching(html, device_codename) ==
    IF HtmlMissing(html) THEN [raised |-> FALSE, fetched |-> FALSE, otas |-> <<>>]
    ELSE Matched(html, parse_page(html, FALSE), device_codename)

\* SelectLatest falling back to the newest record of the device when the
\* filters leave none: a variant C9 has to reject
SelectLatestWithFallback(matching_otas, o) ==
    LET filtered_otas == FilterOtas(matching_otas, o)
        all_sorted_otas == SortNewestFirst(IF filtered_otas = <<>> THEN matching_otas
                                           ELSE filtered_otas)
        stable_otas == SelectSeq(all_sorted_otas, LAMBDA ota : ota.build_type = STABLE)
    IN  IF matching_otas = <<>> THEN NoneInfo
        ELSE IF o.prefer_stable /\ stable_otas # <<>> THEN stable_otas[1]
        ELSE all_sorted_otas[1]

\* SelectLatest taking the first ranked record whatever prefer_stable is:
\* a variant C11 has to reject
SelectLatestIgnoringPreference(matching_otas, o) ==
    LET filtered_otas == FilterOtas(matching_otas, o)
        all_sorted_otas == SortNewestFirst(filtered_otas)
    IN  IF matching_otas = <<>> THEN NoneInfo
        ELSE IF filtered_otas = <<>> THEN NoneInfo
        ELSE all_sorted_otas[1]

\* lines 1235-1302 of get_latest_ota: the record returned, or NoneInfo
SelectLatest(matching_otas, o) ==
    LET filtered_otas == FilterOtas(matching_otas, o)
        all_sorted_otas == SortNewestFirst(filtered_otas)
        stable_otas == SelectSeq(all_sorted_otas, LAMBDA ota : ota.build_type = STABLE)
    IN  IF matching_otas = <<>> THEN NoneInfo
        ELSE IF filtered_otas = <<>> THEN NoneInfo
        ELSE IF o.prefer_stable /\ stable_otas # <<>> THEN stable_otas[1]
        ELSE all_sorted_otas[1]

\* html is what fetch_page returned: a listing, or NoHtml
get_latest_ota(html, device_codename, o) ==
    LET found == FindMatching(html, device_codename)
    IN  IF found.raised THEN Raise ELSE Return(SelectLatest(found.otas, o))

(***************************************************************************)
(* get_latest_factory_image.  Its keyword arguments are accepted and not   *)
(* read.                                                                   *)
(***************************************************************************)

\* matching_images (lines 1470-1477), parsed being the outcome of parse_page
FactoryImages(parsed, device_codename) ==
    IF parsed.raised THEN [raised |-> TRUE, images |-> <<>>]
    ELSE [raised |-> FALSE,
          images |-> IF /\ device_codename \in DOMAIN parsed.value
                        /\ parsed.value[device_codename] # <<>>
                     THEN parsed.value[device_codename] ELSE <<>>]

\* lines 1464-1477: the fetch, the parse of the factory page and matching_images
FindFactoryImages(html, device_codename) ==
    IF HtmlMissing(html) THEN [raised |-> FALSE, images |-> <<>>]
    ELSE FactoryImages(parse_page(html, TRUE), device_codename)

\* lines 1473-1488: the first image of the descending sort, or NoneInfo
LatestImage(matching_images) ==
    IF matching_images = <<>> THEN NoneInfo
    ELSE SortNewestFirst(matching_images)[1]

\* html is what fetch_page returned for the factory page; kwargs is not read
get_latest_factory_image(html, device_codename, kwargs) ==
    LET found == FindFactoryImages(html, device_codename)
    IN  IF found.raised THEN Raise ELSE Return(LatestImage(found.images))

(***************************************************************************)
(* The arguments records are constructed from.                             *)
(***************************************************************************)
HREF_HUSKY_PREVIEW == <<"/", "o", "t", "a", "/", "h", "u", "s", "k", "y",
                        "-", "o", "t", "a", "-", "p", "r", "e", "v", "i",
                        "e", "w", "-", "9", "e", "0", "f", ".", "z", "i",
                        "p">>

HREF_HUSKY_QPR == <<"/", "o", "t", "a", "/", "h", "u", "s", "k", "y", "_",
                    "q", "p", "r", "2", "_", "b", "e", "t", "a", "-", "o",
                    "t", "a", "-", "1", "b", "2", "c", ".", "z", "i", "p">>

HREF_HUSKY_QPR1 == <<"/", "o", "t", "a", "/", "h", "u", "s", "k", "y", "-",
                     "o", "t", "a", "-", "q", "p", "r", "1", "-", "3", "d",
                     "4", "e", ".", "z", "i", "p">>

RecordBuilds ==
    {<<"A", "P", "4", "A", ".", "2", "5", "0", "2", "0", "5", ".", "0", "0", "2">>,
     <<"A", "P", "4", "A", ".", "2", "5", "0", "2", "0", "5", ".", "0", "0", "2", ".", "B", "1">>,
     <<"T", "Q", "3", "A", ".", "2", "3", "0", "8", "0", "5">>,
     <<"U", "P", "1", "A", ".", "Q", "P", "R", "1", "2", "3", ".", "0", "0", "5">>,
     <<"O", "P", "R", "6", ".", "1", "7", "0", "6", ".", "0", "2", "3">>,
     <<"N", "M", "F", "2", "6", "O">>}

RecordInfos ==
    {None, <<>>, <<"V", "e", "r", "i", "z", "o", "n">>, <<"I", "n", "d", "i", "a">>,
     <<"Q", "P", "R", "2", " ", "P", "r", "e", "v", "i", "e", "w">>, <<"Q", "P", "R", "1">>}

RecordUrls ==
    {HREF_HUSKY_FULL, HREF_HUSKY_BETA, HREF_HUSKY_PREVIEW, HREF_HUSKY_QPR,
     HREF_HUSKY_QPR1, HREF_FACTORY}

(***************************************************************************)
(* find_new_images.  A snapshot is a function from device codenames to     *)
(* sequences of records.                                                   *)
(***************************************************************************)

\* IsNew comparing the whole record: a variant C13 has to reject
IsNewByContent(new_ota, old_otas) ==
    ~\E i \in 1..Len(old_otas) : new_ota = old_otas[i]

\* is_new of the inner loop (lines 1072-1077)
IsNew(new_ota, old_otas) ==
    ~\E i \in 1..Len(old_otas) :
        /\ new_ota.android_version = old_otas[i].android_version
        /\ new_ota.build_version = old_otas[i].build_version

\* new_device_otas of a device that old_data holds (lines 1067-1080)
NewDeviceOtas(old_otas, new_otas) ==
    SelectSeq(new_otas, LAMBDA new_ota : IsNew(new_ota, old_otas))

\* find_new_images passing over the devices old_data lacks: a variant C14 has
\* to reject
FindNewImagesOfKnownDevices(old_data, new_data) ==
    LET reported == {device \in DOMAIN new_data \cap DOMAIN old_data :
                        NewDeviceOtas(old_data[device], new_data[device]) # <<>>}
    IN  [device \in reported |-> NewDeviceOtas(old_data[device], new_data[device])]

find_new_images(old_data, new_data) ==
    LET reported == {device \in DOMAIN new_data :
                        \/ device \notin DOMAIN old_data
                        \/ NewDeviceOtas(old_data[device], new_data[device]) # <<>>}
    IN  [device \in reported |->
            IF device \notin DOMAIN old_data THEN new_data[device]
            ELSE NewDeviceOtas(old_data[device], new_data[device])]

\* the records the snapshots to compare are made of: two that differ in the
\* checksum, the date and the file only, one of another Android version and
\* one of another fingerprint
OTA_AP4A ==
    AndroidImageInfo(V15, <<"A", "P", "4", "A", ".", "2", "5", "0", "2", "0", "5", ".", "0", "0", "2">>, None, UNKNOWN, None, HREF_HUSKY_FULL, SHA_A)

OTA_AP4A_AGAIN ==
    AndroidImageInfo(V15, <<"A", "P", "4", "A", ".", "2", "5", "0", "2", "0", "5", ".", "0", "0", "2">>, None, <<"5", " ", "F", "e", "b", " ", "2", "0", "2", "5">>, None, HREF_HUSKY_BETA, None)

OTA_AP4A_V14 ==
    AndroidImageInfo(V14, <<"A", "P", "4", "A", ".", "2", "5", "0", "2", "0", "5", ".", "0", "0", "2">>, None, UNKNOWN, None, HREF_HUSKY_FULL, SHA_A)

OTA_BP1A ==
    AndroidImageInfo(V15, <<"B", "P", "1", "A", ".", "2", "5", "0", "3", "0", "5", ".", "0", "1", "9">>, None, UNKNOWN, None, HREF_HUSKY_BP1A, SHA_A)

DifferRecords == {OTA_AP4A, OTA_AP4A_AGAIN, OTA_AP4A_V14, OTA_BP1A}

\* the largest number of records of a device in a snapshot to compare
MaxRecords == 2

\* the lists of at most MaxRecords records that name no build twice
RecordLists ==
    {otas \in UNION {[1..n -> DifferRecords] : n \in 0..MaxRecords} :
        \A i, j \in 1..Len(otas) : otas[i] = otas[j] => i = j}

\* husky with any list of records or absent, bullhead with one record or absent
Snapshots ==
    {[d \in devices |-> IF d = HUSKY THEN otas ELSE <<OTA_BP1A>>] :
        devices \in SUBSET {HUSKY, BULLHEAD}, otas \in RecordLists}

\* the records that are ranked: OTA_AP4A once more with another date (the six
\* keys of the two are equal), a variant and a carrier build of it
OTA_AP4A_REISSUED ==
    AndroidImageInfo(V15, <<"A", "P", "4", "A", ".", "2", "5", "0", "2", "0", "5", ".", "0", "0", "2">>, None, <<"5", " ", "F", "e", "b", " ", "2", "0", "2", "5">>, None, HREF_HUSKY_FULL, None)

OTA_AP4A_A2 ==
    AndroidImageInfo(V15, <<"A", "P", "4", "A", ".", "2", "5", "0", "2", "0", "5", ".", "0", "0", "2", ".", "A", "2">>, None, UNKNOWN, None, HREF_HUSKY_FULL, SHA_A)

OTA_AP4A_VERIZON ==
    AndroidImageInfo(V15, <<"A", "P", "4", "A", ".", "2", "5", "0", "2", "0", "5", ".", "0", "0", "2">>, None, UNKNOWN, <<"V", "e", "r", "i", "z", "o", "n">>, HREF_HUSKY_FULL, SHA_A)

RankedRecords == DifferRecords \cup {OTA_AP4A_REISSUED, OTA_AP4A_A2, OTA_AP4A_VERIZON}

\* the largest number of records of a list that is sorted
MaxSorted == 3

SortInputs == UNION {[1..n -> RankedRecords] : n \in 0..MaxSorted}

(***************************************************************************)
(* The state machine: a page, and the calls made on it.                    *)
(***************************************************************************)
VARIABLES
    html,           \* the listing the page source serves, or NoHtml
    call,           \* the last call and its arguments
    raised,         \* whether the last call left by an exception
    snapshot,       \* the dict the last parse_page or find_new_images returned
    matching_otas,  \* matching_otas of the last get_latest_ota, or the list the last
                    \* sorted() returned
    latest,         \* the record the last get_latest_ota returned, or NoneInfo
    version_parts,  \* the tuple the last parser call returned, or None
    files,          \* what is stored at cache_file, factory_cache_file and the
                    \* output path of a download
    now,            \* the wall clock, in days
    requests,       \* the HTTP requests the last call made
    verifications,  \* the verify_file_hash calls the last call made
    returned        \* what the last call on the files or the network returned

vars == <<html, call, raised, snapshot, matching_otas, latest, version_parts, files, now, requests, verifications, returned>>

\* the files and the network, which the parsers and the selection leave alone
io == <<files, now, requests, verifications, returned>>

NoCall == [op |-> "none"]

\* os.path.exists(path) is False
Absent == [kind |-> "absent"]

NoFiles == [cache_file |-> Absent, factory_cache_file |-> Absent, output_file |-> Absent]

Start(listings) ==
    /\ html \in listings
    /\ call = NoCall
    /\ raised = FALSE
    /\ snapshot = EmptyDict
    /\ matching_otas = <<>>
    /\ latest = NoneInfo
    /\ version_parts = None
    /\ files = NoFiles
    /\ now = 0
    /\ requests = 0
    /\ verifications = 0
    /\ returned = None

Init == Start(Listings(ParseLinks))

InitSelect == Start(Listings(SelectLinks))

InitParsers == Start({NoHtml})

InitChecksums == Start(Listings(ChecksumLinks))

InitLegacyPrefix == Start(Listings(LegacyPrefixLinks))

InitFactory == Start(Listings(FactoryLinks))

ParsePage(is_factory) ==
    /\ call = NoCall
    /\ \E r \in {parse_page(html, is_factory)} :
           /\ call' = [op |-> "parse_page", is_factory |-> is_factory]
           /\ raised' = r.raised
           /\ snapshot' = r.value
           /\ UNCHANGED <<html, matching_otas, latest, version_parts>>
           /\ UNCHANGED io

GetLatestOta(device_codename) ==
    /\ call = NoCall
    /\ \E found \in {FindMatching(html, device_codename)}, o \in Options :
               /\ call' = [op |-> "get_latest_ota", device_codename |-> device_codename,
                           options |-> o]
               /\ raised' = found.raised
               /\ matching_otas' = found.otas
               /\ latest' = IF found.raised THEN NoneInfo
                            ELSE SelectLatest(found.otas, o)
               /\ UNCHANGED <<html, snapshot, version_parts>>
               /\ UNCHANGED io

GetLatestFactoryImage(device_codename) ==
    /\ call = NoCall
    /\ \E found \in {FindFactoryImages(html, device_codename)}, kwargs \in Options :
           /\ call' = [op |-> "get_latest_factory_image",
                       device_codename |-> device_codename, options |-> kwargs]
           /\ raised' = found.raised
           /\ matching_otas' = found.images
           /\ latest' = IF found.raised THEN NoneInfo ELSE LatestImage(found.images)
           /\ UNCHANGED <<html, snapshot, version_parts>>
           /\ UNCHANGED io

Construct(android_version, build_version, additional_info, download_url, checksum) ==
    /\ call = NoCall
    /\ call' = [op |-> "AndroidImageInfo", build_version |-> build_version,
                additional_info |-> additional_info, download_url |-> download_url]
    /\ latest' = AndroidImageInfo(android_version, build_version, None, UNKNOWN,
                                  additional_info, download_url, checksum)
    /\ UNCHANGED <<html, raised, snapshot, matching_otas, version_parts>>
    /\ UNCHANGED io

\* sorted(otas, key=self.get_version_sort_key, reverse=True)
Sorted(otas) ==
    /\ call = NoCall
    /\ call' = [op |-> "sorted", otas |-> otas]
    /\ matching_otas' = SortNewestFirst(otas)
    /\ UNCHANGED <<html, raised, snapshot, latest, version_parts>>
    /\ UNCHANGED io

FindNewImages(old_data, new_data) ==
    /\ call = NoCall
    /\ call' = [op |-> "find_new_images", old_data |-> old_data, new_data |-> new_data]
    /\ snapshot' = find_new_images(old_data, new_data)
    /\ UNCHANGED <<html, raised, matching_otas, latest, version_parts>>
    /\ UNCHANGED io

ParseModernPixelFilename(filename, parent_row) ==
    /\ call = NoCall
    /\ call' = [op |-> "parse_modern_pixel_filename", filename |-> filename,
                parent_row |-> parent_row]
    /\ version_parts' = parse_modern_pixel_filename(filename, parent_row)
    /\ UNCHANGED <<html, raised, snapshot, matching_otas, latest>>
    /\ UNCHANGED io

ParseVersionText(text) ==
    /\ call = NoCall
    /\ call' = [op |-> "parse_version_text", text |-> text]
    /\ version_parts' = parse_version_text(text)
    /\ UNCHANGED <<html, raised, snapshot, matching_otas, latest>>
    /\ UNCHANGED io

Next == \E is_factory \in BOOLEAN : ParsePage(is_factory)

NextSelect == \E device_codename \in Devices : GetLatestOta(device_codename)

NextParsers ==
    \/ \E filename \in Filenames, parent_row \in ParentRows :
           ParseModernPixelFilename(filename, parent_row)
    \/ \E text \in Texts : ParseVersionText(text)

NextFactory == \E device_codename \in Devices : GetLatestFactoryImage(device_codename)

NextDiffer == \E old_data \in Snapshots, new_data \in Snapshots :
                  FindNewImages(old_data, new_data)

NextRecords ==
    \E android_version \in {V15, V14}, build_version \in RecordBuilds,
       additional_info \in RecordInfos, download_url \in RecordUrls,
       checksum \in {None, SHA_A} :
        Construct(android_version, build_version, additional_info, download_url, checksum)

NextChecksums ==
    \/ \E is_factory \in BOOLEAN : ParsePage(is_factory)
    \/ \E device_codename \in Devices : GetLatestOta(device_codename)

NextSort == \E otas \in SortInputs : Sorted(otas)

Spec == Init /\ [][Next]_vars

SpecSort == InitParsers /\ [][NextSort]_vars

SpecChecksums == InitChecksums /\ [][NextChecksums]_vars

SpecLegacyPrefix == InitLegacyPrefix /\ [][Next]_vars

SpecRecords == InitParsers /\ [][NextRecords]_vars

SpecDiffer == InitParsers /\ [][NextDiffer]_vars

SpecFactory == InitFactory /\ [][NextFactory]_vars

SpecSelect == InitSelect /\ [][NextSelect]_vars

SpecParsers == InitParsers /\ [][NextParsers]_vars

(***************************************************************************)
(* The ranking of the records of one device.                               *)
(***************************************************************************)
ParsePageReturned == call.op = "parse_page" /\ ~raised

\* the Android major version and the first three dot-segments of the fingerprint
SameBaseBuild(a, b) ==
    LET pa == split(a.build_version, ".")
        pb == split(b.build_version, ".")
    IN  /\ split(a.android_version, ".")[1] = split(b.android_version, ".")[1]
        /\ SubSeq(pa, 1, IF Len(pa) < 3 THEN Len(pa) ELSE 3)
               = SubSeq(pb, 1, IF Len(pb) < 3 THEN Len(pb) ELSE 3)

\* stable 0 < qpr 1 < preview 2 < beta 3
BuildTypeRank(ota) ==
    CASE ota.build_type = STABLE -> 0
      [] ota.build_type = QPR -> 1
      [] ota.build_type = PREVIEW -> 2
      [] ota.build_type = BETA -> 3
      [] OTHER -> 4

\* the fourth dot-segment of the fingerprint starts with a letter
HasLetteredVariant(ota) ==
    LET parts == split(ota.build_version, ".")
    IN  Len(parts) > 3 /\ At(parts[4], 1) \in Letter

HasNoVariant(ota) == Len(split(ota.build_version, ".")) <= 3

\* C1: in every list of a snapshot parse_page returns, of two records with the
\* same Android major version and the same base fingerprint the one with the
\* lower build-type priority (stable 0 < qpr 1 < preview 2 < beta 3) comes
\* first: a stable build stands ahead of a beta build of its base fingerprint.
C1_LowerBuildTypeFirst ==
    ParsePageReturned =>
        \A d \in DOMAIN snapshot :
            \A i, j \in 1..Len(snapshot[d]) :
                (i < j /\ SameBaseBuild(snapshot[d][i], snapshot[d][j]))
                    => BuildTypeRank(snapshot[d][i]) <= BuildTypeRank(snapshot[d][j])

\* C2: in every list of a snapshot parse_page returns, a record whose
\* fingerprint has no fourth segment stands before every record of the same
\* Android version and base fingerprint that carries a lettered variant.
C2_NoVariantBeforeVariant ==
    ParsePageReturned =>
        \A d \in DOMAIN snapshot :
            \A i, j \in 1..Len(snapshot[d]) :
                ( /\ SameBaseBuild(snapshot[d][i], snapshot[d][j])
                  /\ HasNoVariant(snapshot[d][i])
                  /\ HasLetteredVariant(snapshot[d][j]) ) => i < j

(***************************************************************************)
(* The parsers.                                                            *)
(***************************************************************************)
\* the fingerprint a modern file name spells: the prefix in upper case, then
\* the segments of the name with their dots
SpelledFingerprint(groups) ==
    upper(groups[2]) \o <<".">> \o groups[3] \o <<".">> \o groups[4]
    \o (IF groups[5] = None THEN <<>> ELSE <<".">> \o groups[5])

\* C3: parse_modern_pixel_filename of a name codename-ota-prefix.major.minor
\* [.variant]-hash.zip whose prefix is not an OPR prefix returns the
\* fingerprint UPPER(prefix).major.minor[.variant] with every dot of the name;
\* for husky-ota-bp1a.250305.019-b4977f37.zip it returns BP1A.250305.019 and
\* Android 15.0.0.
C3_ModernFingerprintKeepsDots ==
    call.op = "parse_modern_pixel_filename" =>
        LET groups == MODERN_PIXEL_PATTERN(call.filename)
        IN  /\ (groups # None /\ ~startswith(upper(groups[2]), OPR)) =>
                   /\ version_parts # None
                   /\ version_parts[2] = SpelledFingerprint(groups)
            /\ call.filename = Basename(HREF_HUSKY_BP1A) =>
                   /\ version_parts # None
                   /\ version_parts[1] = V15
                   /\ version_parts[2] = <<"B", "P", "1", "A", ".", "2", "5", "0", "3", "0", "5", ".", "0", "1", "9">>

\* the leading run of lowercase letters of the file a link names
LeadingCodename(link) ==
    LET filename == Basename(link.href) IN Sub(filename, 1, RunEnd(filename, 1, Lower))

\* the id of the heading before the table of the link when there is one,
\* otherwise the codename its file name starts with
CodenameOf(link) ==
    IF link.row.table /\ Truthy(link.row.h2) THEN link.row.h2 ELSE LeadingCodename(link)

\* C4: every key of the snapshot parse_page returns is a non-empty device
\* codename, the heading id of a link of the page or else the codename its
\* file name starts with, and never an Android version or another capture.
C4_KeysAreCodenames ==
    ParsePageReturned =>
        \A k \in DOMAIN snapshot :
            /\ k # <<>>
            /\ \E i \in 1..Len(html) : k = CodenameOf(html[i])

\* C5: parse_version_text("7.1.1 (NMF26O, Dec 2016)") returns Android 7.1.1,
\* the fingerprint NMF26O with its leading letters, and the date "Dec 2016".
C5_DatedTextKeepsFingerprint ==
    (call.op = "parse_version_text" /\ call.text = TEXT_NMF26O) =>
        /\ version_parts # None
        /\ version_parts[1] = <<"7", ".", "1", ".", "1">>
        /\ version_parts[2] = <<"N", "M", "F", "2", "6", "O">>
        /\ version_parts[4] = <<"D", "e", "c", " ", "2", "0", "1", "6">>

\* what the legacy carrier matcher captures
LegacyCarrierParts(text) ==
    LET m == LEGACY_CARRIER_PATTERN(text) IN <<m[1], m[3], None, UNKNOWN, m[2]>>

\* C6: the free-text matchers are tried in the order legacy carrier, legacy
\* bare, general dated, and the first that accepts the text gives the
\* captures: a text the legacy carrier matcher accepts is parsed by it, also
\* when the general dated matcher accepts the text too.
C6_EarlierMatcherWins ==
    (call.op = "parse_version_text" /\ LEGACY_CARRIER_PATTERN(call.text) # None)
        => version_parts = LegacyCarrierParts(call.text)

\* the links of a listing that stand in a table row
LinksInRows(listing) ==
    IF listing = NoHtml THEN NoHtml ELSE SelectSeq(listing, LAMBDA l : l.row.present)

\* C7: parse_page never leaves by an exception: a link ending in .zip that has
\* no enclosing table row is skipped like the other unrecognized links, and
\* the snapshot returned is the one built from the remaining links.
C7_ParsePageNeverAborts ==
    call.op = "parse_page" =>
        /\ ~raised
        /\ snapshot = parse_page(LinksInRows(html), call.is_factory).value

(***************************************************************************)
(* The selection of get_latest_ota.                                        *)
(***************************************************************************)
GetLatestOtaReturned == call.op = "get_latest_ota" /\ ~raised

\* the record passes filter steps 1 to 6 of a request
Passes(ota, o) ==
    /\ Truthy(o.specific_build) => ota.build_version = o.specific_build
    /\ ~o.include_beta => ~ota.is_beta
    /\ ~o.include_carrier => ~ota.is_carrier
    /\ ~o.include_region_specific => ~ota.is_region_specific
    /\ Truthy(o.carrier) => ota.carrier = o.carrier
    /\ Truthy(o.region) => ota.region = o.region

\* C8: a record get_latest_ota returns satisfies every active exclusion: it is
\* not beta unless include_beta, not carrier-specific unless include_carrier,
\* not region-specific unless include_region_specific, and its carrier and
\* region are the requested ones when a carrier or a region is requested.
C8_ReturnedRecordPassesExclusions ==
    (GetLatestOtaReturned /\ latest # NoneInfo) =>
        /\ ~call.options.include_beta => ~latest.is_beta
        /\ ~call.options.include_carrier => ~latest.is_carrier
        /\ ~call.options.include_region_specific => ~latest.is_region_specific
        /\ Truthy(call.options.carrier) => latest.carrier = call.options.carrier
        /\ Truthy(call.options.region) => latest.region = call.options.region

\* a record is returned although a record of the device was excluded
C8_RecordReturnedPastExcluded ==
    /\ GetLatestOtaReturned
    /\ latest # NoneInfo
    /\ ~call.options.include_beta
    /\ ~call.options.include_carrier
    /\ \E i \in 1..Len(matching_otas) :
           matching_otas[i].is_beta \/ matching_otas[i].is_carrier

\* C9: get_latest_ota returns None exactly when no record of the device
\* passes filter steps 1 to 6; it never falls back to an excluded record.
C9_NotFoundIffNothingPasses ==
    GetLatestOtaReturned =>
        (latest = NoneInfo
            <=> ~\E i \in 1..Len(matching_otas) : Passes(matching_otas[i], call.options))

\* not-found for a device whose records are all beta or carrier builds
C9_OnlyBetaAndCarrierBuilds ==
    /\ GetLatestOtaReturned
    /\ latest = NoneInfo
    /\ ~call.options.include_beta
    /\ ~call.options.include_carrier
    /\ call.options.specific_build = None
    /\ call.options.carrier = None
    /\ call.options.region = None
    /\ \E i \in 1..Len(matching_otas) : matching_otas[i].is_beta
    /\ \E i \in 1..Len(matching_otas) : matching_otas[i].is_carrier
    /\ \A i \in 1..Len(matching_otas) :
           matching_otas[i].is_beta \/ matching_otas[i].is_carrier

\* C10: with a fingerprint requested, get_latest_ota returns a record of
\* exactly that fingerprint or None, and None when no record of the device
\* has the fingerprint, whatever the other options are.
C10_SpecificBuildExactOrNotFound ==
    (GetLatestOtaReturned /\ Truthy(call.options.specific_build)) =>
        /\ latest # NoneInfo => latest.build_version = call.options.specific_build
        /\ (\A i \in 1..Len(matching_otas) :
                matching_otas[i].build_version # call.options.specific_build)
               => latest = NoneInfo

\* the requested fingerprint is returned for a device that has other builds
C10_RequestedBuildAmongOthers ==
    /\ GetLatestOtaReturned
    /\ Truthy(call.options.specific_build)
    /\ latest # NoneInfo
    /\ latest.build_version = call.options.specific_build
    /\ \E i \in 1..Len(matching_otas) :
           matching_otas[i].build_version # call.options.specific_build

\* the filtered records of the last request as get_latest_ota ranks them
RankedFiltered == SortNewestFirst(FilterOtas(matching_otas, call.options))

\* the positions of the stable records in the ranked, filtered sequence
StablePositions == {i \in 1..Len(RankedFiltered) : RankedFiltered[i].build_type = STABLE}

\* C11: with prefer_stable set get_latest_ota returns the first record of the
\* ranked, filtered sequence whose build_type is stable when there is one, and
\* otherwise the first record of that sequence; with prefer_stable unset it
\* returns the first record of that sequence.
C11_PreferStableTakesFirstStable ==
    (GetLatestOtaReturned /\ latest # NoneInfo) =>
        IF call.options.prefer_stable /\ StablePositions # {}
        THEN latest = RankedFiltered[CHOOSE i \in StablePositions :
                                        \A j \in StablePositions : i <= j]
        ELSE latest = RankedFiltered[1]

\* prefer_stable passes over a first-ranked record that is not stable
C11_StablePreferredOverFirst ==
    /\ GetLatestOtaReturned
    /\ latest # NoneInfo
    /\ call.options.prefer_stable
    /\ RankedFiltered[1].build_type # STABLE
    /\ latest.build_type = STABLE

(***************************************************************************)
(* The selection of get_latest_factory_image.                              *)
(***************************************************************************)
GetLatestFactoryImageReturned == call.op = "get_latest_factory_image" /\ ~raised

\* C12: get_latest_factory_image honours the selection options as
\* get_latest_ota does: called with include_beta false it returns no beta
\* record, and called with a fingerprint it returns a record of exactly that
\* fingerprint or None.
C12_FactoryImageHonoursOptions ==
    (GetLatestFactoryImageReturned /\ latest # NoneInfo) =>
        /\ ~call.options.include_beta => ~latest.is_beta
        /\ Truthy(call.options.specific_build)
               => latest.build_version = call.options.specific_build

(***************************************************************************)
(* The comparison of two snapshots.                                        *)
(***************************************************************************)
FindNewImagesReturned == call.op = "find_new_images"

\* the record is in the list reported for the device
Reported(device, ota) ==
    /\ device \in DOMAIN snapshot
    /\ \E i \in 1..Len(snapshot[device]) : snapshot[device][i] = ota

\* a record of the old list of the device has the Android version and the
\* fingerprint of the record
KnownBefore(device, ota) ==
    /\ device \in DOMAIN call.old_data
    /\ \E i \in 1..Len(call.old_data[device]) :
           /\ call.old_data[device][i].android_version = ota.android_version
           /\ call.old_data[device][i].build_version = ota.build_version

\* C13: find_new_images reports a record of the new snapshot exactly when no
\* record of the old list of its device has both its Android version and its
\* fingerprint; a record that differs from an old one in checksum, date or
\* flags only is not reported.
C13_NewIffIdentityUnknown ==
    FindNewImagesReturned =>
        \A device \in DOMAIN call.new_data :
            \A i \in 1..Len(call.new_data[device]) :
                Reported(device, call.new_data[device][i])
                    <=> ~KnownBefore(device, call.new_data[device][i])

\* a record that differs from an old one in the checksum only is left out
\* while a record of the same list with a new fingerprint is reported
C13_ChecksumChangeNotReported ==
    /\ FindNewImagesReturned
    /\ HUSKY \in DOMAIN call.old_data
    /\ HUSKY \in DOMAIN call.new_data
    /\ call.old_data[HUSKY] = <<OTA_AP4A>>
    /\ call.new_data[HUSKY] = <<OTA_AP4A_AGAIN, OTA_BP1A>>
    /\ snapshot[HUSKY] = <<OTA_BP1A>>

\* C14: in the result of find_new_images a device that only the new snapshot
\* holds maps to its whole new list, and a device that only the old snapshot
\* holds is no key.
C14_OnlyNewWholeOnlyOldAbsent ==
    FindNewImagesReturned =>
        /\ \A device \in DOMAIN call.new_data \ DOMAIN call.old_data :
               /\ device \in DOMAIN snapshot
               /\ snapshot[device] = call.new_data[device]
        /\ \A device \in DOMAIN call.old_data \ DOMAIN call.new_data :
               device \notin DOMAIN snapshot

\* husky appears with two records while bullhead disappears
C14_DeviceAppearsDeviceDisappears ==
    /\ FindNewImagesReturned
    /\ DOMAIN call.old_data = {BULLHEAD}
    /\ DOMAIN call.new_data = {HUSKY}
    /\ Len(call.new_data[HUSKY]) = 2
    /\ DOMAIN snapshot = {HUSKY}
    /\ snapshot[HUSKY] = call.new_data[HUSKY]

\* C15: every key of the result of find_new_images maps to a non-empty list,
\* also when the new snapshot holds a device with an empty list that the old
\* snapshot lacks: a device with no new record is left out.
C15_NoEmptyListReported ==
    FindNewImagesReturned =>
        \A device \in DOMAIN snapshot : snapshot[device] # <<>>

(***************************************************************************)
(* The derived fields of a record.                                         *)
(***************************************************************************)
Constructed == call.op = "AndroidImageInfo"

\* C16: for every record after construction is_beta holds exactly when
\* build_type is "beta", and build_type is one of stable, beta, preview, qpr.
C16_BetaIffBuildTypeBeta ==
    Constructed =>
        /\ latest.is_beta <=> latest.build_type = BETA
        /\ latest.build_type \in {STABLE, BETA, PREVIEW, QPR}

\* a beta record whose file name and note also say preview and qpr
C16_BetaAmongOtherMarks ==
    /\ Constructed
    /\ latest.is_beta
    /\ latest.build_type = BETA
    /\ Contains(lower(latest.filename), QPR)
    /\ Contains(lower(latest.additional_info), PREVIEW)

\* the dot-segments of the fingerprint of the constructed record
FingerprintSegments == split(call.build_version, ".")

\* C17: security_patch_level of a record is set exactly when its fingerprint
\* has at least two dot-segments and the second has length 6; it is then "20",
\* characters 1-2, "-", characters 3-4 of that segment (AP4A.250205.002 gives
\* 2025-02); otherwise it is absent, and construction does not raise.
C17_PatchLevelFromSecondSegment ==
    Constructed =>
        /\ ~raised
        /\ latest.security_patch_level # None
               <=> (Len(FingerprintSegments) >= 2 /\ Len(FingerprintSegments[2]) = 6)
        /\ latest.security_patch_level # None =>
               latest.security_patch_level =
                   <<"2", "0", FingerprintSegments[2][1], FingerprintSegments[2][2], "-",
                     FingerprintSegments[2][3], FingerprintSegments[2][4]>>
        /\ call.build_version = <<"A", "P", "4", "A", ".", "2", "5", "0", "2", "0", "5", ".", "0", "0", "2">>
               => latest.security_patch_level = <<"2", "0", "2", "5", "-", "0", "2">>

\* a fingerprint of two segments only gives its patch level
C17_TwoSegmentFingerprint ==
    /\ Constructed
    /\ Len(FingerprintSegments) = 2
    /\ latest.security_patch_level = <<"2", "0", "2", "3", "-", "0", "8">>

(***************************************************************************)
(* The checksum bound to a record.                                         *)
(***************************************************************************)

\* what the checksum cell of a row gives: the leading 64 hexadecimal characters
\* of the third cell, or of the fourth cell of a four-cell row, or absent
RowChecksums(row) ==
    IF row.present
    THEN {SHA256_PREFIX(strip(row.cells[k])) : k \in 3..Len(row.cells)} \cup {None}
    ELSE {None}

\* the rows of the listing that hold a link to the URL and give the checksum
RowsGiving(download_url, checksum) ==
    {k \in 1..Len(html) : /\ html[k].href = download_url
                          /\ checksum \in RowChecksums(html[k].row)}

\* the records parse_page put in the snapshot, by device and position
SnapshotRecords ==
    {p \in (DOMAIN snapshot) \X (1..MaxLinks) : p[2] <= Len(snapshot[p[1]])}

\* every record can be given a row of its own that holds its link and gives its
\* checksum
SnapshotChecksumsFromOwnRows ==
    \A p \in SnapshotRecords :
        Cardinality({q \in SnapshotRecords :
                        /\ snapshot[q[1]][q[2]].download_url
                               = snapshot[p[1]][p[2]].download_url
                        /\ snapshot[q[1]][q[2]].checksum = snapshot[p[1]][p[2]].checksum})
            <= Cardinality(RowsGiving(snapshot[p[1]][p[2]].download_url,
                                      snapshot[p[1]][p[2]].checksum))

MatchingChecksumsFromOwnRows ==
    \A i \in 1..Len(matching_otas) :
        Cardinality({j \in 1..Len(matching_otas) :
                        /\ matching_otas[j].download_url = matching_otas[i].download_url
                        /\ matching_otas[j].checksum = matching_otas[i].checksum})
            <= Cardinality(RowsGiving(matching_otas[i].download_url,
                                      matching_otas[i].checksum))

SortedReturned == call.op = "sorted"

\* a ranks strictly before b: the descending sort puts the greater key first
RanksBefore(a, b) == KeyLess(b, a)

\* neither ranks before the other
RanksWith(a, b) == ~RanksBefore(a, b) /\ ~RanksBefore(b, a)

\* the keys of the records that were sorted, in the order they were given in
GivenKeys == [i \in 1..Len(call.otas) |-> get_version_sort_key(call.otas[i])]

\* the keys of the records the sort returned
ReturnedKeys == [i \in 1..Len(matching_otas) |-> get_version_sort_key(matching_otas[i])]

StrictWeakOrder(keys) ==
    \A i, j, k \in DOMAIN keys :
        /\ RanksBefore(keys[i], keys[j]) /\ RanksBefore(keys[j], keys[k])
               => RanksBefore(keys[i], keys[k])
        /\ RanksWith(keys[i], keys[i])
        /\ RanksWith(keys[i], keys[j]) => RanksWith(keys[j], keys[i])
        /\ RanksWith(keys[i], keys[j]) /\ RanksWith(keys[j], keys[k])
               => RanksWith(keys[i], keys[k])

\* C19: the ranking order of get_version_sort_key is a strict weak order: for
\* any three records A, B, C, if A ranks strictly before B and B strictly
\* before C then A ranks strictly before C, and "neither ranks before the
\* other" is an equivalence relation.
C19_RankingIsStrictWeakOrder ==
    SortedReturned => \E keys \in {GivenKeys} : StrictWeakOrder(keys)

ChainAndTie(keys) ==
    /\ RanksBefore(keys[3], keys[2])
    /\ RanksWith(keys[2], keys[1])
    /\ RanksBefore(keys[3], keys[1])

\* three records given last first, two of them distinct with equal keys
C19_ChainAndTie ==
    /\ SortedReturned
    /\ Len(call.otas) = 3
    /\ call.otas[2] # call.otas[1]
    /\ \E keys \in {GivenKeys} : ChainAndTie(keys)

\* C20: sorting is idempotent: sorting by the ranking order, descending, a
\* sequence that is the output of that sort gives the identical sequence, the
\* relative order of the records whose six keys are all equal included.
C20_SortIsIdempotent ==
    SortedReturned => SortNewestFirst(matching_otas) = matching_otas

TieKept(keys) ==
    \E i \in 1..(Len(matching_otas) - 1) :
        /\ matching_otas[i] # matching_otas[i + 1]
        /\ RanksWith(keys[i], keys[i + 1])
        /\ \E m, n \in 1..Len(call.otas) :
               m < n /\ call.otas[m] = matching_otas[i] /\ call.otas[n] = matching_otas[i + 1]

\* a list the sort reordered, keeping two distinct records of equal keys in the
\* order they were given in
C20_ReorderedWithTieKept ==
    /\ SortedReturned
    /\ matching_otas # call.otas
    /\ \E keys \in {ReturnedKeys} : TieKept(keys)

(***************************************************************************)
(* The order of a snapshot.                                                *)
(***************************************************************************)

\* the keys of the records of a list, in the order of the list
KeysOf(otas) == [i \in 1..Len(otas) |-> get_version_sort_key(otas[i])]

\* no key is smaller than the key after it
NonIncreasing(keys) == \A i \in 1..(Len(keys) - 1) : ~KeyLess(keys[i], keys[i + 1])

\* C21: in every snapshot parse_page returns, the sequence of each device is
\* non-empty and ordered by the ranking key: of two adjacent records the sort
\* key of the earlier is greater than or equal to the sort key of the later.
C21_SnapshotListsRankedNonEmpty ==
    ParsePageReturned =>
        \A d \in DOMAIN snapshot :
            /\ snapshot[d] # <<>>
            /\ \E keys \in {KeysOf(snapshot[d])} : NonIncreasing(keys)

\* the later link of the page gave the record of the greater key, which the
\* snapshot holds first
C21_LaterLinkRankedFirst ==
    /\ ParsePageReturned
    /\ \E d \in DOMAIN snapshot :
           /\ Len(snapshot[d]) = 2
           /\ snapshot[d][1].download_url = html[2].href
           /\ snapshot[d][2].download_url = html[1].href
           /\ KeyLess(get_version_sort_key(snapshot[d][2]),
                      get_version_sort_key(snapshot[d][1]))

(***************************************************************************)
(* The Android version of a modern file name.                              *)
(***************************************************************************)

\* the major version of an Android version
MajorOf(android_version) == split(android_version, ".")[1]

\* the Android major version the table gives a fingerprint prefix, or None
TableMajor(build_prefix) ==
    IF startswith(build_prefix, BP) \/ startswith(build_prefix, AP4) THEN <<"1", "5">>
    ELSE IF startswith(build_prefix, AP3) \/ startswith(build_prefix, AP2) THEN <<"1", "4">>
    ELSE None

PrefixGivesMajor(groups) ==
    (groups # None /\ TableMajor(upper(groups[2])) # None) =>
        /\ version_parts # None
        /\ MajorOf(version_parts[1]) = TableMajor(upper(groups[2]))

\* C24: for a modern file name the Android version is fixed by the fingerprint
\* prefix alone: prefixes starting with BP or AP4 give major version 15 and
\* prefixes starting with AP3 or AP2 give major version 14, whatever the text
\* of the surrounding row says.
C24_PrefixAloneFixesAndroidVersion ==
    call.op = "parse_modern_pixel_filename" =>
        \E groups \in {MODERN_PIXEL_PATTERN(call.filename)} : PrefixGivesMajor(groups)

\* an AP3 file name in a row whose text says Android 15
C24_RowTextSaysOtherVersion ==
    /\ call.op = "parse_modern_pixel_filename"
    /\ call.parent_row = LINK_MODERN.row
    /\ parse_version_text(strip(call.parent_row.cells[1]))[1] = V15
    /\ Contains(call.filename, <<"-", "a", "p", "3", "a", ".">>)
    /\ version_parts # None
    /\ version_parts[1] = V14

(***************************************************************************)
(* Modern file names of Nexus-era builds.                                  *)
(***************************************************************************)

\* the file of the link has the modern form and its prefix starts with OPR
HasOprName(link) ==
    \E groups \in {MODERN_PIXEL_PATTERN(Basename(link.href))} :
        groups # None /\ startswith(upper(groups[2]), OPR)

\* the tuple parsed from the text of the first cell of the row of the link, or
\* None when the row or the text is missing or the text cannot be parsed
RowTextParts(link) ==
    IF link.row.present /\ link.row.cells # <<>> /\ Truthy(strip(link.row.cells[1]))
    THEN parse_version_text(strip(link.row.cells[1]))
    ELSE None

\* the records of the snapshot that name the URL
RecordsOf(download_url) ==
    {snapshot[p[1]][p[2]] : p \in {q \in SnapshotRecords :
                                      snapshot[q[1]][q[2]].download_url = download_url}}

\* the record of an OPR link is built from the text of its row
BuiltFromRowText(link, text_parts) ==
    /\ parse_modern_pixel_filename(Basename(link.href), link.row) = None
    /\ text_parts = None => RecordsOf(link.href) = {}
    /\ text_parts # None =>
           \A ota \in RecordsOf(link.href) :
               /\ ota.android_version = text_parts[1]
               /\ ota.build_version = text_parts[2]
               /\ ota.release_date = text_parts[4]

\* C23: a modern file name whose fingerprint prefix starts with OPR is rejected
\* by parse_modern_pixel_filename (result None), and parse_page then builds the
\* record from the free-text version cell of the row of the link only, taking
\* the Android version from that text; if the row text is missing or cannot be
\* parsed no record is produced for that link.
C23_OprNameDefersToRowText ==
    (ParsePageReturned /\ ~HtmlMissing(html)) =>
        \A i \in 1..Len(html) :
            HasOprName(html[i]) => BuiltFromRowText(html[i], RowTextParts(html[i]))

\* the snapshot holds the record of an OPR file with the Android version of
\* its row, and no record of the OPR file of the row that cannot be parsed
C23_OprRecordFromText ==
    /\ ParsePageReturned
    /\ html = <<LINK_OPR, LINK_OPR_UNPARSABLE>>
    /\ DOMAIN snapshot = {FUGU}
    /\ Len(snapshot[FUGU]) = 1
    /\ snapshot[FUGU][1].download_url = HREF_FUGU_OPR
    /\ snapshot[FUGU][1].android_version = <<"8", ".", "0", ".", "0">>

(***************************************************************************)
(* Carrier and region of a record.                                         *)
(***************************************************************************)

\* carrier is set exactly when is_carrier holds, region exactly when
\* is_region_specific holds
FlagsMatchNames(ota) ==
    /\ ota.carrier # None <=> ota.is_carrier
    /\ ota.region # None <=> ota.is_region_specific

\* C30: for every record carrier is set if and only if is_carrier is true and
\* region is set if and only if is_region_specific is true; so get_latest_ota
\* called with a carrier name while include_carrier is false, or with a region
\* name while include_region_specific is false, returns not-found for every
\* device and every listing.
C30_NameWithoutFlagFindsNothing ==
    GetLatestOtaReturned =>
        /\ \A i \in 1..Len(matching_otas) : FlagsMatchNames(matching_otas[i])
        /\ (Truthy(call.options.carrier) /\ ~call.options.include_carrier)
               => latest = NoneInfo
        /\ (Truthy(call.options.region) /\ ~call.options.include_region_specific)
               => latest = NoneInfo

\* a carrier build of the requested carrier is listed, and the call that
\* names the carrier without include_carrier finds nothing
C30_CarrierBuildListedNotFound ==
    /\ GetLatestOtaReturned
    /\ Truthy(call.options.carrier)
    /\ ~call.options.include_carrier
    /\ call.options.include_beta
    /\ ~Truthy(call.options.region)
    /\ ~Truthy(call.options.specific_build)
    /\ \E i \in 1..Len(matching_otas) : matching_otas[i].carrier = call.options.carrier
    /\ latest = NoneInfo

(***************************************************************************)
(* The data cache: to_dict, validate_cache, load_cache and save_cache.     *)
(* A file is Absent, a page cache or a data cache; writing a file is taken *)
(* to succeed.                                                             *)
(***************************************************************************)
\* json.dump({'timestamp': time.time(), 'content': html}, f)
PageCacheFile(timestamp, content) ==
    [kind |-> "page", timestamp |-> timestamp, content |-> content]

\* json.dump(cache_data, f, indent=2)
DataCacheFile(cache_data) == [kind |-> "data", cache_data |-> cache_data]

\* each key of the dict is read from the attribute of its name, and reading
\* an attribute the record does not have raises AttributeError; the
\* attributes are the fields of the dataclass, of which the records here
\* leave out last_checked and friendly_name
to_dict(ota) ==
    LET keys == {"device", "android_version", "build_version", "sub_version",
                 "release_date", "additional_info", "download_url", "filename",
                 "last_checked", "is_beta", "is_carrier", "is_factory",
                 "is_region_specific", "region", "carrier", "build_type",
                 "security_patch_level"}
        attributes == DOMAIN ota \cup {"last_checked", "friendly_name"}
    IN  IF keys \subseteq attributes
        THEN Return([k \in keys |-> ota[k]])
        ELSE [raised |-> TRUE, value |-> EmptyDict]

\* AndroidImageInfo(**ota): an unexpected or a missing keyword raises
\* TypeError; the parameters of the generated __init__ are the fields but
\* filename, the first six without a default
FromFields(ota) ==
    IF /\ DOMAIN ota \subseteq
              {"android_version", "build_version", "sub_version", "release_date",
               "additional_info", "download_url", "last_checked", "is_beta",
               "is_carrier", "is_factory", "is_region_specific", "region", "carrier",
               "build_type", "security_patch_level", "friendly_name", "checksum"}
       /\ {"android_version", "build_version", "sub_version", "release_date",
           "additional_info", "download_url"} \subseteq DOMAIN ota
    THEN Return(AndroidImageInfo(ota.android_version, ota.build_version, ota.sub_version,
                                 ota.release_date, ota.additional_info, ota.download_url,
                                 IF "checksum" \in DOMAIN ota THEN ota.checksum ELSE None))
    ELSE Raise

\* of a page cache the value of 'timestamp' is not a list
validate_cache(file) ==
    LET required_fields == {"device", "android_version", "build_version", "release_date",
                            "download_url", "filename", "last_checked"}
    IN  /\ file.kind = "data"
        /\ \A device \in DOMAIN file.cache_data :
               \A i \in 1..Len(file.cache_data[device]) :
                   required_fields \subseteq DOMAIN file.cache_data[device][i]

load_cache(file) ==
    IF file = Absent \/ ~validate_cache(file) THEN EmptyDict
    ELSE IF \E device \in DOMAIN file.cache_data :
                \E i \in 1..Len(file.cache_data[device]) :
                    FromFields(file.cache_data[device][i]).raised
         THEN EmptyDict
         ELSE [device \in DOMAIN file.cache_data |->
                  [i \in 1..Len(file.cache_data[device]) |->
                      FromFields(file.cache_data[device][i]).value]]

\* the file after save_cache(data): cache_data is built before the file is
\* opened, and an exception on the way is logged
save_cache(file, data) ==
    IF \E device \in DOMAIN data :
           \E i \in 1..Len(data[device]) : to_dict(data[device][i]).raised
    THEN file
    ELSE DataCacheFile([device \in DOMAIN data |->
                           [i \in 1..Len(data[device]) |-> to_dict(data[device][i]).value]])

\* save_cache(new_data) on the snapshot parse_page returned, as run calls it
SaveCache ==
    /\ call.op = "parse_page"
    /\ ~raised
    /\ call' = [op |-> "save_cache"]
    /\ files' = [files EXCEPT !.cache_file = save_cache(@, snapshot)]
    /\ UNCHANGED <<html, raised, snapshot, matching_otas, latest, version_parts>>
    /\ UNCHANGED <<now, requests, verifications, returned>>

\* load_cache() after the snapshot was saved
LoadCache ==
    /\ call.op = "save_cache"
    /\ call' = [op |-> "load_cache"]
    /\ returned' = load_cache(files.cache_file)
    /\ UNCHANGED <<html, raised, snapshot, matching_otas, latest, version_parts>>
    /\ UNCHANGED <<files, now, requests, verifications>>

NextCache ==
    \/ \E is_factory \in BOOLEAN : ParsePage(is_factory)
    \/ SaveCache
    \/ LoadCache

SpecCache == Init /\ [][NextCache]_vars

\* the identities find_new_images compares
Identities(otas) ==
    {<<otas[i].android_version, otas[i].build_version>> : i \in 1..Len(otas)}

\* C22: to_dict succeeds on every record parse_page produced and the record
\* built from its fields has the same identity, so load_cache after
\* save_cache returns a snapshot with the same devices and the same record
\* identities as the one saved.
C22_SavedSnapshotLoadsBack ==
    call.op = "load_cache" =>
        /\ \A device \in DOMAIN snapshot :
               \A i \in 1..Len(snapshot[device]) : ~to_dict(snapshot[device][i]).raised
        /\ DOMAIN returned = DOMAIN snapshot
        /\ \A device \in DOMAIN snapshot :
               Identities(returned[device]) = Identities(snapshot[device])

(***************************************************************************)
(* The page cache and fetch_page.  The clock counts days; a request is     *)
(* answered by the text the page source serves, or fails.                  *)
(***************************************************************************)
cache_max_age_days == 1

\* a response or a cached content of no characters
EmptyText == <<[empty |-> TRUE]>>

\* `if cached_content:`
PageTruthy(content) == content # NoHtml /\ content # EmptyText

\* load_page_cache taking an expired page cache too: a variant C29 has to reject
LoadPageCacheIgnoringExpiry(file, clock) ==
    IF file.kind = "page" THEN file.content ELSE NoHtml

\* None for no file, for an expired page cache and for an exception: a data
\* cache has no key 'timestamp'
load_page_cache(file, clock) ==
    IF file.kind = "page" /\ ~(clock - file.timestamp > cache_max_age_days)
    THEN file.content
    ELSE NoHtml

\* the for loop of fetch_page from attempt on: answers[i] tells whether the
\* i-th request succeeds, text is what a successful request returns
RECURSIVE Attempts(_, _, _, _, _, _)
Attempts(attempt, max_retries, answers, text, file, clock) ==
    IF attempt >= max_retries
    THEN [returned |-> NoHtml, file |-> file, requests |-> attempt]
    ELSE IF answers[attempt + 1]
    THEN [returned |-> text, file |-> PageCacheFile(clock, text), requests |-> attempt + 1]
    ELSE IF attempt < max_retries - 1
    THEN Attempts(attempt + 1, max_retries, answers, text, file, clock)
    ELSE [returned |-> NoHtml, file |-> file, requests |-> attempt + 1]

fetch_page(file, clock, max_retries, answers, text) ==
    IF PageTruthy(load_page_cache(file, clock))
    THEN [returned |-> load_page_cache(file, clock), file |-> file, requests |-> 0]
    ELSE Attempts(0, max_retries, answers, text, file, clock)

\* self.factory_cache_file if is_factory else self.cache_file
CacheFileOf(is_factory) == IF is_factory THEN "factory_cache_file" ELSE "cache_file"

\* the largest max_retries a scraper is built with
MaxRetries == 3

\* the texts the page source serves
FetchedPages == {<<>>, <<LINK_MODERN>>, EmptyText}

\* the clock readings: a page cache written at 0 is expired at the last one
Days == 0..(cache_max_age_days + 1)

\* what this program can have left at a cache path by the day clock: nothing,
\* a page cache, or the data cache of an empty snapshot
CacheFilesAt(clock) ==
    {Absent, DataCacheFile(EmptyDict)}
        \cup {PageCacheFile(timestamp, content) :
                 timestamp \in {d \in Days : d <= clock}, content \in FetchedPages}

StartIo(pages, outputs) ==
    /\ html \in pages
    /\ call = NoCall
    /\ raised = FALSE
    /\ snapshot = EmptyDict
    /\ matching_otas = <<>>
    /\ latest = NoneInfo
    /\ version_parts = None
    /\ now \in Days
    /\ files \in [cache_file : CacheFilesAt(now), factory_cache_file : CacheFilesAt(now),
                  output_file : outputs]
    /\ requests = 0
    /\ verifications = 0
    /\ returned = None

InitFetch == StartIo(FetchedPages, {Absent})

FetchPage(is_factory, max_retries, answers) ==
    /\ call = NoCall
    /\ call' = [op |-> "fetch_page", is_factory |-> is_factory, max_retries |-> max_retries,
                answers |-> answers, before |-> files[CacheFileOf(is_factory)]]
    /\ \E r \in {fetch_page(files[CacheFileOf(is_factory)], now, max_retries, answers, html)} :
           /\ returned' = r.returned
           /\ files' = [files EXCEPT ![CacheFileOf(is_factory)] = r.file]
           /\ requests' = r.requests
    /\ UNCHANGED <<html, raised, snapshot, matching_otas, latest, version_parts>>
    /\ UNCHANGED <<now, verifications>>

NextFetch ==
    \E is_factory \in BOOLEAN, max_retries \in 0..MaxRetries :
        \E answers \in [1..max_retries -> BOOLEAN] : FetchPage(is_factory, max_retries, answers)

SpecFetch == InitFetch /\ [][NextFetch]_vars

FetchPageReturned == call.op = "fetch_page"

\* the page cache fetch_page found is not older than cache_max_age_days
UnexpiredBefore ==
    /\ call.before.kind = "page"
    /\ now - call.before.timestamp <= cache_max_age_days

\* the requests answered with a response
Answered == {i \in 1..call.max_retries : call.answers[i]}

FirstAnswered == CHOOSE i \in Answered : \A j \in Answered : i <= j

cleanup_cache(file, clock) ==
    LET fresh(entry) == clock - entry.last_checked <= cache_max_age_days
        valid_entries(device) == SelectSeq(file.cache_data[device], fresh)
    IN  IF file.kind # "data" THEN file
        ELSE DataCacheFile([device \in {d \in DOMAIN file.cache_data :
                                            valid_entries(d) # <<>>} |->
                               valid_entries(device)])

\* run from the return of parse_page on
RunParsed(old_data, fetched, parsed) ==
    IF parsed.raised
    THEN [raised |-> TRUE, returned |-> EmptyDict, file |-> fetched.file,
          requests |-> fetched.requests, fetched |-> fetched.returned, new_data |-> EmptyDict]
    ELSE [raised |-> FALSE, returned |-> find_new_images(old_data, parsed.value),
          file |-> save_cache(fetched.file, parsed.value),
          requests |-> fetched.requests, fetched |-> fetched.returned,
          new_data |-> parsed.value]

\* run from the return of fetch_page on
RunFetched(old_data, fetched) ==
    IF ~PageTruthy(fetched.returned)
    THEN [raised |-> FALSE, returned |-> EmptyDict, file |-> fetched.file,
          requests |-> fetched.requests, fetched |-> fetched.returned, new_data |-> EmptyDict]
    ELSE RunParsed(old_data, fetched, parse_page(fetched.returned, FALSE))

\* file is what is at cache_file
run(file, clock, max_retries, answers, text) ==
    RunFetched(load_cache(cleanup_cache(file, clock)),
               fetch_page(cleanup_cache(file, clock), clock, max_retries, answers, text))

\* the largest number of calls of run on one scraper
MaxRuns == 2

RunLinks == {LINK_MODERN, LINK_ORPHAN}

RunPages == Listings(RunLinks) \ {NoHtml}

InitRun == StartIo(RunPages, {Absent}) /\ files.factory_cache_file = Absent

\* the calls of run on this scraper so far
Runs == IF call = NoCall THEN 0 ELSE call.nth

\* run() on a scraper built with max_retries, the one of its earlier calls
Run(max_retries, answers) ==
    /\ Runs < MaxRuns
    /\ call # NoCall => ~raised /\ call.max_retries = max_retries
    /\ \E r \in {run(files.cache_file, now, max_retries, answers, html)} :
           /\ call' = [op |-> "run", nth |-> Runs + 1, max_retries |-> max_retries,
                       answers |-> answers, fetched |-> r.fetched,
                       earlier |-> IF call = NoCall THEN NoHtml ELSE call.fetched]
           /\ raised' = r.raised
           /\ returned' = r.returned
           /\ snapshot' = r.new_data
           /\ files' = [files EXCEPT !.cache_file = r.file]
           /\ requests' = r.requests
    /\ UNCHANGED <<html, matching_otas, latest, version_parts, now, verifications>>

NextRun ==
    \E max_retries \in 0..MaxRetries :
        \E answers \in [1..max_retries -> BOOLEAN] : Run(max_retries, answers)

SpecRun == InitRun /\ [][NextRun]_vars

\* run returned for the second time, having fetched the text it fetched the
\* first time
SameListingFetchedAgain ==
    /\ call.op = "run"
    /\ call.nth >= 2
    /\ ~raised
    /\ PageTruthy(call.fetched)
    /\ call.fetched = call.earlier

\* C26: the second of two consecutive calls of run on one scraper that
\* fetched the same listing both times reports no new images.
C26_SecondRunReportsNothing == SameListingFetchedAgain => returned = EmptyDict

(***************************************************************************)
(* verify_file_hash, download_with_progress and the download of main.  A   *)
(* file at the output path is told by the body it holds; hashlib.sha256 is *)
(* a table from bodies to the lower-case digests.                          *)
(***************************************************************************)
\* a file holding body
DownloadedFile(body) == [kind |-> "bytes", content |-> body]

\* the 64 characters the checksum cell of LINK_LEGACY starts with, some in
\* upper case
SHA_B == SHA256_PREFIX(SHA_B_ZIP)

\* hash_obj.hexdigest(): of the image the listing gives SHA_A for, of another
\* image, and of what an interrupted transfer leaves
hexdigest(body) ==
    CASE body = "image" -> SHA_A
      [] body = "other" -> lower(SHA_B)
      [] OTHER -> [i \in 1..Len(SHA_A) |-> SHA_A[Len(SHA_A) + 1 - i]]

Bodies == {"image", "other", "partial"}

\* False for a file that cannot be read and for an expected hash of a length
\* other than 8 and 64
verify_file_hash(file, expected_hash) ==
    /\ file # Absent
    /\ \/ Len(expected_hash) = 8 /\ startswith(hexdigest(file.content), expected_hash)
       \/ Len(expected_hash) = 64 /\ hexdigest(file.content) = expected_hash

\* `expected_hash and len(expected_hash) == 64`
FullHash(expected_hash) == Truthy(expected_hash) /\ Len(expected_hash) = 64

\* the except branch of download_with_progress: the file is removed if there
\* is one and os.remove succeeds
DownloadFailed(file, env, requests_made, verifications_made) ==
    [returned |-> FALSE,
     file |-> IF file # Absent /\ env.removable THEN Absent ELSE file,
     requests |-> requests_made, verifications |-> verifications_made]

\* download_with_progress from the request on with the check of the
\* downloaded file left out: a variant C27 has to reject
DownloadRequestUnverified(file, expected_hash, env, verifications_made) ==
    IF env.bare THEN DownloadFailed(file, env, 0, verifications_made)
    ELSE IF env.answer = "fail" THEN DownloadFailed(file, env, 1, verifications_made)
    ELSE IF env.answer = "interrupted"
    THEN DownloadFailed(DownloadedFile("partial"), env, 1, verifications_made)
    ELSE [returned |-> TRUE, file |-> DownloadedFile(env.answer), requests |-> 1,
          verifications |-> verifications_made]

\* download_with_progress from os.makedirs on: env.bare tells that the output
\* path has no directory part, for which os.makedirs raises; env.answer is
\* the body the request delivers, or tells that it fails or breaks off
DownloadRequest(file, expected_hash, env, verifications_made) ==
    IF env.bare THEN DownloadFailed(file, env, 0, verifications_made)
    ELSE IF env.answer = "fail" THEN DownloadFailed(file, env, 1, verifications_made)
    ELSE IF env.answer = "interrupted"
    THEN DownloadFailed(DownloadedFile("partial"), env, 1, verifications_made)
    ELSE IF FullHash(expected_hash)
    THEN IF verify_file_hash(DownloadedFile(env.answer), expected_hash)
         THEN [returned |-> TRUE, file |-> DownloadedFile(env.answer), requests |-> 1,
               verifications |-> verifications_made + 1]
         ELSE [returned |-> FALSE,
               file |-> IF env.removable THEN Absent ELSE DownloadedFile(env.answer),
               requests |-> 1, verifications |-> verifications_made + 1]
    ELSE [returned |-> TRUE, file |-> DownloadedFile(env.answer), requests |-> 1,
          verifications |-> verifications_made]

\* download_with_progress going to the request whatever is at the output
\* path: a variant C28 has to reject
DownloadWithProgressOverwriting(output_file, verify_hash, expected_hash, env) ==
    DownloadRequest(output_file, expected_hash, env, 0)

\* output_file is what is at the output path; verify_hash is not read
download_with_progress(output_file, verify_hash, expected_hash, env) ==
    IF output_file # Absent
    THEN IF FullHash(expected_hash)
         THEN IF verify_file_hash(output_file, expected_hash)
              THEN [returned |-> TRUE, file |-> output_file, requests |-> 0,
                    verifications |-> 1]
              ELSE IF env.removable
              THEN DownloadRequest(Absent, expected_hash, env, 1)
              ELSE DownloadFailed(output_file, env, 0, 1)
         ELSE [returned |-> TRUE, file |-> output_file, requests |-> 0, verifications |-> 0]
    ELSE DownloadRequest(Absent, expected_hash, env, 0)

\* main from `if os.path.exists(output_file)` on, for the image of checksum;
\* returned is None where download_with_progress is not called
main_download(output_file, checksum, no_verify_hash, env) ==
    IF output_file # Absent
    THEN IF FullHash(checksum)
         THEN IF verify_file_hash(output_file, checksum)
              THEN [returned |-> None, file |-> output_file, requests |-> 0,
                    verifications |-> 1]
              ELSE [download_with_progress(output_file, ~no_verify_hash, checksum, env)
                        EXCEPT !.verifications = @ + 1]
         ELSE [returned |-> None, file |-> output_file, requests |-> 0, verifications |-> 0]
    ELSE download_with_progress(output_file, ~no_verify_hash, checksum, env)

\* the expected hashes: none, the empty string, the 8 characters SHA_A
\* starts with, and 64 characters in lower and in mixed case
ExpectedHashes == {None, <<>>, SHA_SHORT, SHA_A, SHA_B, lower(SHA_B)}

\* the checksums of a record: none or the 64 characters of a checksum cell
Checksums == {None, SHA_A, SHA_B, lower(SHA_B)}

Environments ==
    [bare : BOOLEAN, removable : BOOLEAN, answer : {"fail", "interrupted", "image", "other"}]

OutputFiles == {Absent} \cup {DownloadedFile(body) : body \in Bodies}

InitDownload ==
    /\ StartIo({NoHtml}, OutputFiles)
    /\ now = 0
    /\ files.cache_file = Absent
    /\ files.factory_cache_file = Absent

DownloadWithProgress(verify_hash, expected_hash, env) ==
    /\ call = NoCall
    /\ call' = [op |-> "download_with_progress", verify_hash |-> verify_hash,
                expected_hash |-> expected_hash, env |-> env, before |-> files.output_file]
    /\ \E r \in {download_with_progress(files.output_file, verify_hash, expected_hash, env)} :
           /\ returned' = r.returned
           /\ files' = [files EXCEPT !.output_file = r.file]
           /\ requests' = r.requests
           /\ verifications' = r.verifications
    /\ UNCHANGED <<html, raised, snapshot, matching_otas, latest, version_parts, now>>

MainDownload(checksum, no_verify_hash, env) ==
    /\ call = NoCall
    /\ call' = [op |-> "main", verify_hash |-> ~no_verify_hash,
                expected_hash |-> checksum, env |-> env, before |-> files.output_file]
    /\ \E r \in {main_download(files.output_file, checksum, no_verify_hash, env)} :
           /\ returned' = r.returned
           /\ files' = [files EXCEPT !.output_file = r.file]
           /\ requests' = r.requests
           /\ verifications' = r.verifications
    /\ UNCHANGED <<html, raised, snapshot, matching_otas, latest, version_parts, now>>

NextDownload ==
    \/ \E verify_hash \in BOOLEAN, expected_hash \in ExpectedHashes, env \in Environments :
           DownloadWithProgress(verify_hash, expected_hash, env)
    \/ \E checksum \in Checksums, no_verify_hash \in BOOLEAN, env \in Environments :
           MainDownload(checksum, no_verify_hash, env)

SpecDownload == InitDownload /\ [][NextDownload]_vars

DownloadReturned == call.op = "download_with_progress"

\* C27: when download_with_progress returns True with an expected hash of 64
\* characters the file at the output path has that SHA-256 digest; when it
\* returns False and removing a file succeeds no file is left at the output
\* path.
C27_TrueMeansDigestFalseMeansNoFile ==
    DownloadReturned =>
        /\ returned = TRUE /\ Len(call.expected_hash) = 64 =>
               /\ files.output_file # Absent
               /\ hexdigest(files.output_file.content) = call.expected_hash
        /\ returned = FALSE /\ call.env.removable => files.output_file = Absent

\* a file of another digest is replaced by the image of the expected one
C27_WrongFileReplaced ==
    /\ DownloadReturned
    /\ call.before = DownloadedFile("other")
    /\ call.expected_hash = SHA_A
    /\ returned = TRUE
    /\ files.output_file = DownloadedFile("image")
    /\ verifications = 2

\* C25: download_with_progress called with verify_hash=False does not run
\* verify_file_hash, and a body it has downloaded is kept and reported as a
\* success whatever its digest.
C25_SwitchedOffMeansUnverified ==
    DownloadReturned /\ ~call.verify_hash =>
        /\ verifications = 0
        /\ requests = 1 /\ call.env.answer \in Bodies =>
               /\ returned = TRUE
               /\ files.output_file = DownloadedFile(call.env.answer)

DownloadOrMainReturned == call.op \in {"download_with_progress", "main"}

\* C28: main and download_with_progress change a file that exists at the
\* output path only if the record has a checksum of 64 characters and the
\* digest of the file is not that checksum; without such a checksum the file
\* is left as it is and no request is made.
C28_ExistingFileKeptUnlessRefuted ==
    DownloadOrMainReturned /\ call.before # Absent =>
        /\ files.output_file # call.before =>
               /\ FullHash(call.expected_hash)
               /\ hexdigest(call.before.content) # call.expected_hash
        /\ ~FullHash(call.expected_hash) =>
               /\ files.output_file = call.before
               /\ requests = 0

\* what an interrupted transfer left stays where only 8 characters of a
\* checksum are given
C28_UncheckedFileKept ==
    /\ DownloadReturned
    /\ call.before = DownloadedFile("partial")
    /\ call.expected_hash = SHA_SHORT
    /\ files.output_file = call.before
    /\ requests = 0
    /\ returned = TRUE

====
